---- MODULE Spec2Model ----
(***************************************************************************)
(* JuicyFlock: the host side of the boids simulation (MainComponent.cpp)   *)
(* and the three compute passes it dispatches every frame.                 *)
(*                                                                         *)
(* Real-valued quantities (radii, speeds, coordinates, cell size) are      *)
(* fixed-point integers: 1.0 is 20000 units, so one unit is 5.0e-5 and the *)
(* change threshold 1.0e-4 of the parameter handler is 2 units.            *)
(*                                                                         *)
(* Three specifications share the variables:                               *)
(*   Spec      the GL thread of MainComponent: initialise, parameter       *)
(*             updates, buffer rebuilds, shader reloads, frames, shutdown  *)
(*   SpecTick  one frame's clear / build / integrate passes at the         *)
(*             granularity of single shader invocations                    *)
(*   SpecScan  the neighbour scan of the integrate pass as a function of   *)
(*             the particle set and the grid                               *)
(***************************************************************************)
EXTENDS Integers, Sequences, FiniteSets, TLC

\* ------------------------------------------------------------- constants

\* fixed point: units per 1.0
Scale == 2 * 10000

\* MainComponent.h members
WorldMin == -200000
WorldMax == 200000
MaxCellCount == 1048576
InitCellSize == 40000
InitGridDim == 10
InitCellCount == 1000

\* clamps of the constructor and of the parameter handler
MinParticles == 1
MaxParticles == 100000
NeighborRadiusLo == 1000
NeighborRadiusHi == 1000000
SeparationRadiusLo == 200
SpeedLo == 0
SpeedHi == 20000000
MaxSpeedGap == 20
MaxSpeedFloor == 200
RadiusChangeEps == 2

\* rebuildBuffersOnGLThread
MinCellSize == 10000
MaxGridRetries == 4
DirEpsilon == 20

\* BoidsControlPanel::Params defaults
DefaultParticleCount == 60000
DefaultNeighborRadius == 26800
DefaultSeparationRadius == 41400
DefaultMinSpeed == 20000
DefaultMaxSpeed == 200000

\* ------------------------------------------------------------- bounds

\* GL buffer object names the driver hands out (0 is "no buffer")
NumBufferNames == 4
\* allocation epochs told apart (a tag on generated particles)
NumEpochs == 2

\* ------------------------------------------------------------- helpers

Min(a, b) == IF a < b THEN a ELSE b
Max(a, b) == IF a < b THEN b ELSE a
Abs(a) == IF a < 0 THEN -a ELSE a

\* juce::jlimit (lowerLimit, upperLimit, valueToConstrain)
jlimit(lo, hi, v) == IF v < lo THEN lo ELSE IF hi < v THEN hi ELSE v

\* (int) std::ceil (a / b) for a >= 0, b > 0
CeilDiv(a, b) == (a + b - 1) \div b

\* integer square root (floor) by bisection: lo * lo <= n < hi * hi
RECURSIVE ISqrtBetween(_, _, _)
ISqrtBetween(n, lo, hi) ==
    IF hi - lo <= 1 THEN lo
    ELSE LET mid == (lo + hi) \div 2
         IN  IF mid * mid <= n THEN ISqrtBetween(n, mid, hi) ELSE ISqrtBetween(n, lo, mid)
ISqrt(n) == ISqrtBetween(n, 0, 2 * Scale)

\* juce::Vector3D<float>::length() of a direction vector (components within +-Scale)
Length(v) == ISqrt(v[1] * v[1] + v[2] * v[2] + v[3] * v[3])

\* juce::Vector3D<float>::normalised()
Normalised(v) ==
    LET len == Length(v)
    IN  <<(v[1] * Scale) \div len, (v[2] * Scale) \div len, (v[3] * Scale) \div len>>

\* ------------------------------------------------------------- state

VARIABLES
    \* --- MainComponent (GL thread) ---
    lifecycle,             \* "constructed" | "running" | "closed": the GL context's life
    glpc,                  \* where the GL thread is: "idle", a rebuild step, a frame step
    params,                \* the stored simulation parameters (neighborRadius, ...)
    currentParticleCount,
    cellSize,
    gridDims,              \* <<x, y, z>>
    cellCount,
    particlesSSBO,         \* [0 .. 1 -> handle], 0 = none
    cellHeadsSSBO,
    nextIndexSSBO,
    buffers,               \* the GL buffer objects by name
    binding,               \* GL_SHADER_STORAGE_BUFFER binding points 0..3
    buffersReady,
    shadersLoaded,
    computeAvailable,
    rebuildArg,            \* newParticleCount of the running rebuildBuffersOnGLThread
    shaders,               \* the four programs, lastShaderError, the stored file times
    files,                 \* the shader files on disk: whether each exists, its time
    msg,                   \* the message thread: panel, timers, the job handed to GL
    hist,                  \* history: what the last rebuild / tick / draw used
    \* --- the GPU, followed unit by unit in SpecTick and SpecScan ---
    heads,                 \* contents of CellHeads: [0 .. cellCount-1 -> index or -1]
    next,                  \* contents of NextIndex: [0 .. N-1 -> index or -1]
    slots,                 \* contents of the particle buffers, by buffer name
    launched,              \* the passes of this tick whose dispatch has been issued
    clearDone,             \* cells whose clear unit has run in this tick
    buildSt,               \* per particle: "pending" | "exchanged" | "done"
    prevReg,               \* per particle: the value its atomicExchange returned
    stepDone,              \* particles whose integrate unit has run in this tick
    seen,                  \* per particle: the indices its neighbour scan examined
    accepted,              \* per particle: the indices its neighbour scan accepted
    drawn,                 \* the slots the last draw read
    tickNo,                \* ticks completed
    \* --- a single function of the program, applied to chosen arguments ---
    call                   \* <<>> or the record of the application: arguments, result

hostVars ==
    <<lifecycle, glpc, params, currentParticleCount, cellSize, gridDims, cellCount,
      particlesSSBO, cellHeadsSSBO, nextIndexSSBO, buffers, binding, buffersReady,
      shadersLoaded, computeAvailable, rebuildArg, hist, shaders, files, msg>>

gpuVars ==
    <<heads, next, slots, launched, clearDone, buildSt, prevReg, stepDone, seen,
      accepted, drawn, tickNo>>

vars == <<hostVars, gpuVars, call>>

\* ------------------------------------------------------------- parameters

\* (mutant: maxSpeed clamped to [0, 1000] without the floor above minSpeed)
ClampParamsNoGap(p) ==
    LET nr == jlimit(NeighborRadiusLo, NeighborRadiusHi, p.neighborRadius)
        sr == jlimit(SeparationRadiusLo, nr, p.separationRadius)
        mn == jlimit(SpeedLo, SpeedHi, p.minSpeed)
        mx == jlimit(SpeedLo, SpeedHi, p.maxSpeed)
    IN  [neighborRadius |-> nr, separationRadius |-> sr, minSpeed |-> mn, maxSpeed |-> mx]

\* The clamps of the constructor (lines 156-183) and of the onParamsChanged lambda
\* (lines 222-244), in the order the code applies them: separationRadius is limited
\* by the neighborRadius just stored, maxSpeed by the minSpeed just stored.
ClampParams(p) ==
    LET nr == jlimit(NeighborRadiusLo, NeighborRadiusHi, p.neighborRadius)
        sr == jlimit(SeparationRadiusLo, nr, p.separationRadius)
        mn == jlimit(SpeedLo, SpeedHi, p.minSpeed)
        mx == jlimit(Max(mn + MaxSpeedGap, MaxSpeedFloor), SpeedHi, p.maxSpeed)
    IN  [neighborRadius |-> nr, separationRadius |-> sr, minSpeed |-> mn, maxSpeed |-> mx]

\* BoidsControlPanel::Params with its default member initialisers
DefaultParams ==
    [particleCount |-> DefaultParticleCount,
     neighborRadius |-> DefaultNeighborRadius,
     separationRadius |-> DefaultSeparationRadius,
     minSpeed |-> DefaultMinSpeed,
     maxSpeed |-> DefaultMaxSpeed]

\* (mutant: the upper limit forgotten)
ClampCountNoCeiling(k) == Max(MinParticles, k)

\* juce::jlimit (1, 100000, count): lines 156, 218 and 617
ClampCount(k) == jlimit(MinParticles, MaxParticles, k)

\* const bool neighborRadiusChanged = std::abs (p.neighborRadius - neighborRadius) > 1.0e-4f;
\* the raw requested radius against the stored (clamped) one
NeighborRadiusChanged(p, stored) ==
    Abs(p.neighborRadius - stored.neighborRadius) > RadiusChangeEps

\* if (newCount != currentParticleCount || neighborRadiusChanged)
NeedsRebuild(p, stored, count) ==
    \/ ClampCount(p.particleCount) # count
    \/ NeighborRadiusChanged(p, stored)

\* ------------------------------------------------------------- grid

\* computeGridFromCellSize: one dimension of gridDims
GridDim(worldSize, cs) == Max(1, CeilDiv(worldSize, cs))

\* cellCount / maxCellCount in thousandths (maxCellCount is a multiple of 1024)
RatioMilli(n, d) == ((n \div 1024) * 1000) \div (d \div 1024)

CubeMilli(m) == (((m * m) \div 1000) * m) \div 1000

\* std::cbrt ((float) cellCount / (float) maxCellCount) in thousandths, rounded up:
\* the least m in lo .. hi whose cube reaches r
RECURSIVE CbrtMilliFrom(_, _, _)
CbrtMilliFrom(r, lo, hi) ==
    IF lo >= hi THEN hi
    ELSE LET mid == (lo + hi) \div 2
         IN  IF CubeMilli(mid) >= r THEN CbrtMilliFrom(r, lo, mid)
                                    ELSE CbrtMilliFrom(r, mid + 1, hi)
CbrtMilli(n, d) == CbrtMilliFrom(RatioMilli(n, d), 1000, 12000)

\* computeGridFromCellSize (lines 627-637) for a world of extents ws
GridDims(ws, cs) == <<GridDim(ws[1], cs), GridDim(ws[2], cs), GridDim(ws[3], cs)>>
CellCountOf(dims) == dims[1] * dims[2] * dims[3]

\* The over-budget loop: for (iter = 0; iter < 4 && cellCount > maxCellCount; ++iter)
\*     cellSize *= cbrt (cellCount / maxCellCount) * 1.001f; computeGridFromCellSize();
\* The result keeps the number of retries made.
RECURSIVE EnlargeCellSize(_, _, _)
EnlargeCellSize(ws, cs, iter) ==
    LET count == CellCountOf(GridDims(ws, cs))
    IN  IF iter < MaxGridRetries /\ count > MaxCellCount
        THEN EnlargeCellSize(ws,
                             CeilDiv(cs * ((CbrtMilli(count, MaxCellCount) * 1001) \div 1000), 1000),
                             iter + 1)
        ELSE [cellSize |-> cs, retries |-> iter]

\* rebuildBuffersOnGLThread, lines 624-650, for a world of extents ws
GridOf(ws, nr) ==
    LET cs0 == Max(MinCellSize, nr)
        big == MaxCellCount > 0 /\ CellCountOf(GridDims(ws, cs0)) > MaxCellCount
        e == IF big THEN EnlargeCellSize(ws, cs0, 0) ELSE [cellSize |-> cs0, retries |-> 0]
        d == GridDims(ws, e.cellSize)
    IN  [cellSize |-> e.cellSize, gridDims |-> d, cellCount |-> CellCountOf(d),
         firstSize |-> cs0, overBudget |-> big, retries |-> e.retries]

\* rebuildBuffersOnGLThread, lines 624-650: cell size, grid dimensions, cell count
GridFor(nr) ==
    LET worldSize == WorldMax - WorldMin
        g == GridOf(<<worldSize, worldSize, worldSize>>, nr)
    IN  [cellSize |-> g.cellSize, gridDims |-> g.gridDims, cellCount |-> g.cellCount]

\* ------------------------------------------------------------- particles

\* A particle as the host sees it: pos and dir are vectors, dir in units of Scale;
\* epoch and ticks are tags: the allocation that generated the particle and whether
\* a tick has rewritten it.
\* A particle buffer is followed by the set of values its slots may hold.

\* rx (rng), ry (rng), rz (rng): draws of uniform_real_distribution (worldMin, worldMax)
PosSamples ==
    {<<WorldMin, WorldMin, WorldMin>>, <<0, WorldMax - 1, WorldMin>>,
     <<WorldMax, WorldMax, WorldMax>>}

\* { ru (rng), ru (rng), ru (rng) }: draws of uniform_real_distribution (-1, 1)
RawDirSamples ==
    {<<12000, 16000, 0>>, <<-Scale, 0, 0>>, <<0, 0, 0>>, <<0, 6, -8>>, <<0, 12, -16>>}

\* if (dir.length() < 1.0e-3f) dir = (1, 0, 0);  dir = dir.normalised();
UnitDir(raw) ==
    Normalised(IF Length(raw) < DirEpsilon THEN <<Scale, 0, 0>> ELSE raw)

\* The directions the loop stores: each draw, fallen back and normalised
DirSamples == {UnitDir(raw) : raw \in RawDirSamples}

\* rs (rng): uniform_real_distribution (minSpeed, jmax (minSpeed, maxSpeed / 2.0f))
SpeedSamples(stored) ==
    {stored.minSpeed, Max(stored.minSpeed, stored.maxSpeed \div 2)}

\* The population the loop of lines 668-694 can generate
GeneratedParticles(stored, e) ==
    {[epoch |-> e, ticks |-> 0, pos |-> q, dir |-> d, speed |-> sp] :
        q \in PosSamples, d \in DirSamples, sp \in SpeedSamples(stored)}

\* glBufferData (..., nullptr, ...): the store's contents are undefined
UninitParticles ==
    {[epoch |-> e, ticks |-> t, pos |-> <<WorldMax + Scale, 0, WorldMin - Scale>>,
      dir |-> <<0, 0, 0>>, speed |-> SpeedHi + Scale] :
        e \in 0 .. NumEpochs - 1, t \in 0 .. 1}

\* What the integrate pass leaves in the output buffer, as far as the host follows
\* it: the particles of the input buffer, marked as rewritten by a tick.  (What the
\* pass does to positions and velocities is the subject of SpecTick.)
SteppedParticles(vals) == {[v EXCEPT !.ticks = 1] : v \in vals}

\* ------------------------------------------------------------- GL buffers

BufferNames == 1 .. NumBufferNames

FreeBuffer == [kind |-> "free", size |-> 0, state |-> "none", vals |-> {}]

\* glGenBuffers: names that are not in use
UnusedNames == {n \in BufferNames : buffers[n].kind = "free"}

\* glDeleteBuffers on the four handles
Deleted(bufs, handles) ==
    [n \in BufferNames |-> IF n \in handles THEN FreeBuffer ELSE bufs[n]]

\* hist: epoch counts allocations (modulo NumEpochs); builtRadius and builtCount are
\* the neighborRadius and particle count of the last rebuild; requested is the raw
\* particleCount of the last parameter update (asked: there was one); lastWritten and
\* prevWritten name the buffers the last two integrate passes wrote into the buffers
\* now allocated; swapped tells, from the deletion of the buffers until the new ones
\* are ready, whether the deleted handles stood exchanged (glGenBuffers hands out
\* particlesSSBO[0] < particlesSSBO[1]); buildArgs and stepArgs are the uniforms the
\* last build and step dispatches on the buffers now allocated were given.
NoHist ==
    [epoch |-> 0, builtRadius |-> 0, builtCount |-> 0, requested |-> 0, asked |-> FALSE,
     lastWritten |-> 0, prevWritten |-> 0, swapped |-> FALSE,
     buildArgs |-> <<>>, stepArgs |-> <<>>]

\* ------------------------------------------------------------- shader programs

\* The files initialise () resolves in the Shaders directory (lines 497-501)
ShaderFiles ==
    {"boids_clear.comp", "boids_build.comp", "boids_step.comp", "particles.vert",
     "particles.frag"}

\* The programs in the order reloadAllShadersOnGLThread compiles them: 1 is
\* computeClearProgram, 2 computeBuildProgram, 3 computeStepProgram, 4 renderProgram
ProgramIds == 1 .. 4

\* The files program k is compiled from (lines 550, 557, 565, 574)
SourcesOf(k) ==
    IF k = 1 THEN {"boids_clear.comp"}
    ELSE IF k = 2 THEN {"boids_build.comp"}
    ELSE IF k = 3 THEN {"boids_step.comp"}
    ELSE {"particles.vert", "particles.frag"}

\* The head of lastShaderError when program k does not compile (lines 552, 560, 569, 579)
ErrorHead(k) ==
    IF k = 1 THEN "boids_clear.comp:"
    ELSE IF k = 2 THEN "boids_build.comp:"
    ELSE IF k = 3 THEN "boids_step.comp:"
    ELSE "particles.vert/particles.frag:"

\* The message checkGLCapabilitiesOnGLThread leaves when it fails (lines 332, 339)
CapabilityError == "Shaders are not available in this OpenGL context"

\* A program handle of 0
NoProgram == {}

\* A linked program, told apart by the files it was compiled from and their times
Compiled(k, fs) == {<<f, fs[f].mtime>> : f \in SourcesOf(k)}

\* The programs whose compilation may fail, 0 standing for none: a program with a
\* missing file fails ("... file not found"), so the first failure is at or before it
Failures(fs) ==
    LET missing == {k \in ProgramIds : \E f \in SourcesOf(k) : ~fs[f].exists}
    IN  IF missing = {} THEN 0 .. 4
        ELSE 1 .. (CHOOSE k \in missing : \A j \in missing : k <= j)

\* (mutant: the programs compiled before the failing one stay installed)
InstalledUpTo(failing, fs) ==
    [k \in ProgramIds |-> IF failing = 0 \/ k < failing THEN Compiled(k, fs) ELSE NoProgram]

\* computeClearProgram .. renderProgram after reloadAllShadersOnGLThread with compute
\* available: all four new programs, or none when one failed (lines 550-587)
Installed(failing, fs) ==
    [k \in ProgramIds |-> IF failing = 0 THEN Compiled(k, fs) ELSE NoProgram]

\* juce::Time members lastClearMod .. lastRenderFragMod as constructed, no programs,
\* no error
NoShaders ==
    [programs |-> [k \in ProgramIds |-> NoProgram],
     lastShaderError |-> "",
     lastMod |-> [f \in ShaderFiles |-> 0]]

\* reloadAllShadersOnGLThread (lines 536-598) with computeAvailable = avail; failing is
\* the first program that does not compile and link, 0 if all four do
ReloadAllShaders(avail, failing) ==
    /\ failing \in Failures(files)
    /\ shadersLoaded' = (avail /\ failing = 0)
    /\ shaders' =
          IF ~avail THEN [shaders EXCEPT !.programs = NoShaders.programs]
          ELSE IF failing # 0
          THEN [shaders EXCEPT !.programs = Installed(failing, files),
                               !.lastShaderError = ErrorHead(failing)]
          ELSE [programs |-> Installed(failing, files),
                lastShaderError |-> "",
                lastMod |-> [f \in ShaderFiles |-> files[f].mtime]]

\* The shader files as the build leaves them next to the executable
InitFiles == [f \in ShaderFiles |-> [exists |-> TRUE, mtime |-> 1]]

\* The programs of a context whose initialise () compiled the files of InitFiles
LoadedShaders ==
    [programs |-> Installed(0, InitFiles),
     lastShaderError |-> "",
     lastMod |-> [f \in ShaderFiles |-> InitFiles[f].mtime]]

\* The panel as constructed and filled by setParams (lines 149-213): no change
\* pending, the callback installed, the controls at the stored parameters; the
\* message thread not waiting for the GL thread.  version counts the control
\* changes, emitted is the version the last Params snapshot was taken at.
InitControls ==
    [particleCount |-> ClampCount(DefaultParams.particleCount),
     neighborRadius |-> ClampParams(DefaultParams).neighborRadius,
     separationRadius |-> ClampParams(DefaultParams).separationRadius,
     minSpeed |-> ClampParams(DefaultParams).minSpeed,
     maxSpeed |-> ClampParams(DefaultParams).maxSpeed]

MsgInit ==
    [pc |-> "free", job |-> <<>>, pendingAnyChange |-> FALSE, onParamsChanged |-> TRUE,
     controls |-> InitControls, version |-> 0, emitted |-> 0]

\* ------------------------------------------------------------- Init

\* The state MainComponent::MainComponent() leaves (lines 143-275) with the member
\* initialisers of MainComponent.h
HostInit ==
    /\ lifecycle = "constructed"
    /\ glpc = "idle"
    /\ params = ClampParams(DefaultParams)
    /\ currentParticleCount = ClampCount(DefaultParams.particleCount)
    /\ cellSize = InitCellSize
    /\ gridDims = <<InitGridDim, InitGridDim, InitGridDim>>
    /\ cellCount = InitCellCount
    /\ particlesSSBO = [i \in 0 .. 1 |-> 0]
    /\ cellHeadsSSBO = 0
    /\ nextIndexSSBO = 0
    /\ buffers = [n \in BufferNames |-> FreeBuffer]
    /\ binding = [b \in 0 .. 3 |-> 0]
    /\ buffersReady = FALSE
    /\ shadersLoaded = FALSE
    /\ computeAvailable = FALSE
    /\ rebuildArg = 0
    /\ hist = NoHist
    /\ shaders = NoShaders
    /\ files = InitFiles
    /\ msg = MsgInit

\* ------------------------------------------------------------- inputs

\* Params records handed to the onParamsChanged lambda.  The lambda clamps every
\* field itself, so it is written for any Params value, not only for slider values.
CountInputs == {-5, 0, 3, 150000}
RadiusInputs ==
    {0, DefaultNeighborRadius + 1, DefaultNeighborRadius + 3, 1200000}
OtherInputs ==
    {[separationRadius |-> DefaultSeparationRadius, minSpeed |-> DefaultMinSpeed,
      maxSpeed |-> DefaultMaxSpeed],
     [separationRadius |-> 0, minSpeed |-> -Scale, maxSpeed |-> 0],
     [separationRadius |-> 3 * Scale, minSpeed |-> SpeedHi + Scale, maxSpeed |-> 5 * Scale]}
ParamsInputs ==
    {[particleCount |-> k, neighborRadius |-> r, separationRadius |-> o.separationRadius,
      minSpeed |-> o.minSpeed, maxSpeed |-> o.maxSpeed] :
        k \in CountInputs, r \in RadiusInputs, o \in OtherInputs}

\* ------------------------------------------------------------- GL thread: jobs

\* MainComponent::initialise (lines 490-516): capabilities, shader load, first rebuild.
\* capable: the result of checkGLCapabilitiesOnGLThread; compiled: whether the four
\* programs compile and link.
Initialise(capable, failing) ==
    /\ lifecycle \in {"constructed", "closed"}
    /\ glpc = "idle"
    /\ lifecycle' = "running"
    /\ computeAvailable' = capable
    /\ IF capable THEN ReloadAllShaders(TRUE, failing)
       ELSE /\ failing \in Failures(files)
            /\ shadersLoaded' = FALSE
            /\ shaders' = [shaders EXCEPT !.programs = NoShaders.programs,
                                          !.lastShaderError = CapabilityError]
    /\ IF capable
       THEN /\ glpc' = "rb_delete"
            /\ rebuildArg' = currentParticleCount
       ELSE UNCHANGED <<glpc, rebuildArg>>
    /\ UNCHANGED <<params, currentParticleCount, cellSize, gridDims, cellCount,
                   particlesSSBO, cellHeadsSSBO, nextIndexSSBO, buffers, binding,
                   buffersReady, hist>>
    /\ UNCHANGED <<gpuVars, call, files, msg>>

\* The job timerCallback hands to the GL thread: reloadAllShadersOnGLThread (lines
\* 481-484, 536-598)
ReloadShaders(failing) ==
    /\ lifecycle = "running"
    /\ glpc = "idle"
    /\ ReloadAllShaders(computeAvailable, failing)
    /\ UNCHANGED <<lifecycle, glpc, params, currentParticleCount, cellSize, gridDims,
                   cellCount, particlesSSBO, cellHeadsSSBO, nextIndexSSBO, buffers, binding,
                   buffersReady, computeAvailable, rebuildArg, hist>>
    /\ UNCHANGED <<gpuVars, call, files>>

\* (mutant: the lambda run by its caller at once, wherever the GL thread is)
OnParamsChangedDirect(p) ==
    /\ lifecycle = "running"
    /\ glpc \in {"idle", "fr_clear", "fr_build", "fr_step", "fr_swap", "fr_draw", "fr_end"}
    /\ params' = ClampParams(p)
    /\ hist' = [hist EXCEPT !.requested = p.particleCount, !.asked = TRUE]
    /\ IF NeedsRebuild(p, params, currentParticleCount)
       THEN /\ glpc' = "rb_delete"
            /\ rebuildArg' = ClampCount(p.particleCount)
       ELSE UNCHANGED <<glpc, rebuildArg>>
    /\ UNCHANGED <<lifecycle, currentParticleCount, cellSize, gridDims, cellCount,
                   particlesSSBO, cellHeadsSSBO, nextIndexSSBO, buffers, binding,
                   buffersReady, shadersLoaded, computeAvailable>>
    /\ UNCHANGED <<gpuVars, call, shaders, files>>

\* The onParamsChanged lambda, run on the GL thread (lines 213-249)
OnParamsChanged(p) ==
    /\ lifecycle = "running"
    /\ glpc = "idle"
    /\ params' = ClampParams(p)
    /\ hist' = [hist EXCEPT !.requested = p.particleCount, !.asked = TRUE]
    /\ IF NeedsRebuild(p, params, currentParticleCount)
       THEN /\ glpc' = "rb_delete"
            /\ rebuildArg' = ClampCount(p.particleCount)
       ELSE UNCHANGED <<glpc, rebuildArg>>
    /\ UNCHANGED <<lifecycle, currentParticleCount, cellSize, gridDims, cellCount,
                   particlesSSBO, cellHeadsSSBO, nextIndexSSBO, buffers, binding,
                   buffersReady, shadersLoaded, computeAvailable>>
    /\ UNCHANGED <<gpuVars, call, shaders, files>>

\* (mutant: deleteBuffers without buffersReady.store (false))
DeleteKeepsReady ==
    /\ LET gone == {particlesSSBO[0], particlesSSBO[1], cellHeadsSSBO, nextIndexSSBO}
       IN  /\ buffers' = Deleted(buffers, gone)
           /\ binding' = [b \in 0 .. 3 |-> IF binding[b] \in gone THEN 0 ELSE binding[b]]
    /\ particlesSSBO' = [i \in 0 .. 1 |-> 0]
    /\ cellHeadsSSBO' = 0
    /\ nextIndexSSBO' = 0
    /\ buffersReady' = buffersReady
    /\ hist' = [hist EXCEPT !.lastWritten = 0, !.prevWritten = 0,
                            !.swapped = particlesSSBO[0] > particlesSSBO[1],
                            !.buildArgs = <<>>, !.stepArgs = <<>>]

\* MainComponent::deleteBuffers (lines 601-608): the state it leaves
DeleteBuffersEffect ==
    /\ LET gone == {particlesSSBO[0], particlesSSBO[1], cellHeadsSSBO, nextIndexSSBO}
       IN  /\ buffers' = Deleted(buffers, gone)
           /\ binding' = [b \in 0 .. 3 |-> IF binding[b] \in gone THEN 0 ELSE binding[b]]
    /\ particlesSSBO' = [i \in 0 .. 1 |-> 0]
    /\ cellHeadsSSBO' = 0
    /\ nextIndexSSBO' = 0
    /\ buffersReady' = FALSE
    /\ hist' = [hist EXCEPT !.lastWritten = 0, !.prevWritten = 0,
                            !.swapped = particlesSSBO[0] > particlesSSBO[1],
                            !.buildArgs = <<>>, !.stepArgs = <<>>]

\* MainComponent::shutdown (lines 519-533)
Shutdown ==
    /\ lifecycle = "running"
    /\ glpc = "idle"
    /\ lifecycle' = "closed"
    /\ DeleteBuffersEffect
    /\ shadersLoaded' = FALSE
    /\ computeAvailable' = FALSE
    /\ UNCHANGED <<glpc, params, currentParticleCount, cellSize, gridDims, cellCount,
                   rebuildArg>>
    /\ shaders' = [shaders EXCEPT !.programs = NoShaders.programs, !.lastShaderError = ""]
    /\ UNCHANGED <<gpuVars, call, files, msg>>

\* ------------------------------------------------------------- GL thread: rebuild

\* rebuildBuffersOnGLThread, line 615: deleteBuffers()
RbDelete ==
    /\ glpc = "rb_delete"
    /\ glpc' = "rb_grid"
    /\ DeleteBuffersEffect
    /\ UNCHANGED <<lifecycle, params, currentParticleCount, cellSize, gridDims, cellCount,
                   shadersLoaded, computeAvailable, rebuildArg>>
    /\ UNCHANGED <<gpuVars, call, shaders, files, msg>>

\* lines 617-650: clamp the count, derive the grid from the stored neighborRadius
RbGrid ==
    /\ glpc = "rb_grid"
    /\ glpc' = "rb_gen"
    /\ currentParticleCount' = ClampCount(rebuildArg)
    /\ LET g == GridFor(params.neighborRadius)
       IN  /\ cellSize' = g.cellSize
           /\ gridDims' = g.gridDims
           /\ cellCount' = g.cellCount
    /\ UNCHANGED <<lifecycle, params, particlesSSBO, cellHeadsSSBO, nextIndexSSBO, buffers,
                   binding, buffersReady, shadersLoaded, computeAvailable, rebuildArg, hist>>
    /\ UNCHANGED <<gpuVars, call, shaders, files, msg>>

\* lines 653-655: glGenBuffers (2, particlesSSBO); (1, &cellHeadsSSBO); (1, &nextIndexSSBO)
\* Four names that are not in use; which four is the driver's choice, and they are
\* handed out in increasing order.
GenBuffers(a, b, c, d) ==
    /\ {a, b, c, d} \subseteq UnusedNames
    /\ a < b /\ b < c /\ c < d
    /\ particlesSSBO' = [i \in 0 .. 1 |-> IF i = 0 THEN a ELSE b]
    /\ cellHeadsSSBO' = c
    /\ nextIndexSSBO' = d

RbGen ==
    /\ glpc = "rb_gen"
    /\ glpc' = "rb_fill"
    /\ \E a, b, c, d \in BufferNames : GenBuffers(a, b, c, d)
    /\ UNCHANGED <<lifecycle, params, currentParticleCount, cellSize, gridDims, cellCount,
                   buffers, binding, buffersReady, shadersLoaded, computeAvailable,
                   rebuildArg, hist>>
    /\ UNCHANGED <<gpuVars, call, shaders, files, msg>>

\* (mutant: the population uploaded to particlesSSBO[1], particlesSSBO[0] left without data)
FilledWrongBuffer(bufs, e) ==
    [n \in BufferNames |->
        IF n = particlesSSBO[1]
        THEN [kind |-> "particles", size |-> currentParticleCount, state |-> "generated",
              vals |-> GeneratedParticles(params, e)]
        ELSE IF n = particlesSSBO[0]
        THEN [kind |-> "particles", size |-> currentParticleCount, state |-> "uninit",
              vals |-> UninitParticles]
        ELSE IF n = cellHeadsSSBO
        THEN [kind |-> "heads", size |-> cellCount, state |-> "empty", vals |-> {}]
        ELSE IF n = nextIndexSSBO
        THEN [kind |-> "next", size |-> currentParticleCount, state |-> "uninit", vals |-> {}]
        ELSE bufs[n]]

\* lines 657-710: generate the population, upload it to particlesSSBO[0], allocate
\* particlesSSBO[1] and NextIndex without data, fill CellHeads with -1
FilledBuffers(bufs, e) ==
    [n \in BufferNames |->
        IF n = particlesSSBO[0]
        THEN [kind |-> "particles", size |-> currentParticleCount, state |-> "generated",
              vals |-> GeneratedParticles(params, e)]
        ELSE IF n = particlesSSBO[1]
        THEN [kind |-> "particles", size |-> currentParticleCount, state |-> "uninit",
              vals |-> UninitParticles]
        ELSE IF n = cellHeadsSSBO
        THEN [kind |-> "heads", size |-> cellCount, state |-> "empty", vals |-> {}]
        ELSE IF n = nextIndexSSBO
        THEN [kind |-> "next", size |-> currentParticleCount, state |-> "uninit", vals |-> {}]
        ELSE bufs[n]]

RbFill ==
    /\ glpc = "rb_fill"
    /\ glpc' = "rb_ready"
    /\ LET e == (hist.epoch + 1) % NumEpochs
       IN  /\ buffers' = FilledBuffers(buffers, e)
           /\ hist' = [hist EXCEPT !.epoch = e,
                                   !.builtRadius = params.neighborRadius,
                                   !.builtCount = currentParticleCount]
    /\ UNCHANGED <<lifecycle, params, currentParticleCount, cellSize, gridDims, cellCount,
                   particlesSSBO, cellHeadsSSBO, nextIndexSSBO, binding, buffersReady,
                   shadersLoaded, computeAvailable, rebuildArg>>
    /\ UNCHANGED <<gpuVars, call, shaders, files, msg>>

\* line 712: buffersReady.store (true)
RbReady ==
    /\ glpc = "rb_ready"
    /\ glpc' = "idle"
    /\ buffersReady' = TRUE
    /\ hist' = [hist EXCEPT !.swapped = FALSE]
    /\ UNCHANGED <<lifecycle, params, currentParticleCount, cellSize, gridDims, cellCount,
                   particlesSSBO, cellHeadsSSBO, nextIndexSSBO, buffers, binding,
                   shadersLoaded, computeAvailable, rebuildArg>>
    /\ UNCHANGED <<gpuVars, call, shaders, files, msg>>

\* ------------------------------------------------------------- GL thread: frame

\* glBindBufferBase (GL_SHADER_STORAGE_BUFFER, index, handle) for several indices
Bound(bnd, pairs) ==
    [b \in 0 .. 3 |-> IF \E q \in pairs : q[1] = b
                      THEN (CHOOSE q \in pairs : q[1] = b)[2] ELSE bnd[b]]

\* A store written by a compute pass; writes through binding 0 of name 0 go nowhere
Written(bufs, n, st, vs) ==
    [m \in BufferNames |-> IF m = n THEN [bufs[m] EXCEPT !.state = st, !.vals = vs] ELSE bufs[m]]

\* MainComponent::render up to the call of dispatchComputePasses (lines 819-855) and
\* the test of buffersReady (lines 741-742)
EnterFrame ==
    /\ lifecycle = "running"
    /\ glpc = "idle"
    /\ glpc' = IF ~shadersLoaded \/ ~computeAvailable THEN "idle"
               ELSE IF ~buffersReady THEN "fr_draw"
               ELSE "fr_clear"
    /\ UNCHANGED <<lifecycle, params, currentParticleCount, cellSize, gridDims, cellCount,
                   particlesSSBO, cellHeadsSSBO, nextIndexSSBO, buffers, binding,
                   buffersReady, shadersLoaded, computeAvailable, rebuildArg, hist>>

Render == EnterFrame /\ UNCHANGED <<gpuVars, call, shaders, files, msg>>

\* lines 750-757: clear pass and its barrier
FrClear ==
    /\ glpc = "fr_clear"
    /\ glpc' = "fr_build"
    /\ binding' = Bound(binding, {<<2, cellHeadsSSBO>>})
    /\ buffers' = Written(buffers, cellHeadsSSBO, "cleared", {})
    /\ UNCHANGED <<lifecycle, params, currentParticleCount, cellSize, gridDims, cellCount,
                   particlesSSBO, cellHeadsSSBO, nextIndexSSBO, buffersReady, shadersLoaded,
                   computeAvailable, rebuildArg, hist>>
    /\ UNCHANGED <<gpuVars, call, shaders, files, msg>>

\* (mutant: the pipeline left after the clear pass)
FrBuildReturnsEarly ==
    /\ glpc = "fr_build"
    /\ glpc' = "fr_draw"
    /\ UNCHANGED <<lifecycle, params, currentParticleCount, cellSize, gridDims, cellCount,
                   particlesSSBO, cellHeadsSSBO, nextIndexSSBO, buffers, binding,
                   buffersReady, shadersLoaded, computeAvailable, rebuildArg, hist>>
    /\ UNCHANGED <<gpuVars, call, shaders, files, msg>>

\* u_particleCount, u_gridDims, u_cellSize as set for the build pass (lines 765-768)
BuildArgs ==
    [particleCount |-> currentParticleCount, gridDims |-> gridDims, cellSize |-> cellSize]

\* (mutant: the grid uniforms of the step pass left at the constructor's grid)
StepArgsInitGrid ==
    [particleCount |-> currentParticleCount,
     gridDims |-> <<InitGridDim, InitGridDim, InitGridDim>>, cellSize |-> InitCellSize]

\* u_particleCount, u_gridDims, u_cellSize as set for the step pass (lines 781-785)
StepArgs ==
    [particleCount |-> currentParticleCount, gridDims |-> gridDims, cellSize |-> cellSize]

\* lines 759-772: build pass and its barrier
FrBuild ==
    /\ glpc = "fr_build"
    /\ glpc' = "fr_step"
    /\ binding' = Bound(binding, {<<0, particlesSSBO[0]>>, <<2, cellHeadsSSBO>>,
                                  <<3, nextIndexSSBO>>})
    /\ buffers' = Written(Written(buffers, cellHeadsSSBO, "built", {}),
                          nextIndexSSBO, "built", {})
    /\ hist' = [hist EXCEPT !.buildArgs = BuildArgs]
    /\ UNCHANGED <<lifecycle, params, currentParticleCount, cellSize, gridDims, cellCount,
                   particlesSSBO, cellHeadsSSBO, nextIndexSSBO, buffersReady, shadersLoaded,
                   computeAvailable, rebuildArg>>
    /\ UNCHANGED <<gpuVars, call, shaders, files, msg>>

\* lines 774-812: integrate pass and its barrier
FrStep ==
    /\ glpc = "fr_step"
    /\ glpc' = "fr_swap"
    /\ LET bnd == Bound(binding, {<<0, particlesSSBO[0]>>, <<1, particlesSSBO[1]>>,
                                  <<2, cellHeadsSSBO>>, <<3, nextIndexSSBO>>})
       IN  /\ binding' = bnd
           /\ buffers' = Written(buffers, bnd[1], "stepped",
                                 SteppedParticles(buffers[bnd[0]].vals))
           /\ hist' = [hist EXCEPT !.prevWritten = hist.lastWritten,
                                   !.lastWritten = bnd[1],
                                   !.stepArgs = StepArgs]
    /\ UNCHANGED <<lifecycle, params, currentParticleCount, cellSize, gridDims, cellCount,
                   particlesSSBO, cellHeadsSSBO, nextIndexSSBO, buffersReady, shadersLoaded,
                   computeAvailable, rebuildArg>>
    /\ UNCHANGED <<gpuVars, call, shaders, files, msg>>

\* (mutants of the swap: the second handle copied over the first; no swap at all)
SwapCopiesOne(h) == [i \in 0 .. 1 |-> h[1]]
SwapForgotten(h) == h

\* line 815: std::swap (particlesSSBO[0], particlesSSBO[1])
Swapped(h) == [i \in 0 .. 1 |-> h[1 - i]]

SwapHandles ==
    /\ glpc = "fr_swap"
    /\ glpc' = "fr_draw"
    /\ particlesSSBO' = Swapped(particlesSSBO)
    /\ UNCHANGED <<lifecycle, params, currentParticleCount, cellSize, gridDims, cellCount,
                   cellHeadsSSBO, nextIndexSSBO, buffers, binding, buffersReady,
                   shadersLoaded, computeAvailable, rebuildArg, hist>>

FrSwap == SwapHandles /\ UNCHANGED <<gpuVars, call, shaders, files, msg>>

\* lines 857-885: the draw binds particlesSSBO[0] to binding 0
BindAndDraw ==
    /\ glpc = "fr_draw"
    /\ glpc' = "fr_end"
    /\ binding' = Bound(binding, {<<0, particlesSSBO[0]>>})
    /\ UNCHANGED <<lifecycle, params, currentParticleCount, cellSize, gridDims, cellCount,
                   particlesSSBO, cellHeadsSSBO, nextIndexSSBO, buffers, buffersReady,
                   shadersLoaded, computeAvailable, rebuildArg, hist>>

FrDraw == BindAndDraw /\ UNCHANGED <<gpuVars, call, shaders, files, msg>>

\* line 885: the frame is over
LeaveFrame ==
    /\ glpc = "fr_end"
    /\ glpc' = "idle"
    /\ UNCHANGED <<lifecycle, params, currentParticleCount, cellSize, gridDims, cellCount,
                   particlesSSBO, cellHeadsSSBO, nextIndexSSBO, buffers, binding,
                   buffersReady, shadersLoaded, computeAvailable, rebuildArg, hist>>

FrEnd == LeaveFrame /\ UNCHANGED <<gpuVars, call, shaders, files, msg>>

\* ------------------------------------------------------------- Spec

\* In Spec the two jobs run with no requester followed: the message thread rests.
ReloadAtOnce(failing) == ReloadShaders(failing) /\ UNCHANGED msg

ParamsAtOnce(p) == OnParamsChanged(p) /\ UNCHANGED msg

\* Compilation outcomes of Spec: all programs compile, or the step program fails
HostFailures == {0, 3}

HostNext ==
    \/ \E capable \in BOOLEAN, failing \in HostFailures : Initialise(capable, failing)
    \/ \E failing \in HostFailures : ReloadAtOnce(failing)
    \/ \E p \in ParamsInputs : ParamsAtOnce(p)
    \/ Shutdown
    \/ RbDelete
    \/ RbGrid
    \/ RbGen
    \/ RbFill
    \/ RbReady
    \/ Render
    \/ FrClear
    \/ FrBuild
    \/ FrStep
    \/ FrSwap
    \/ FrDraw
    \/ FrEnd

\* Spec follows the stores only through buffers[n]; the unit-level variables rest.
GpuAtRest ==
    /\ heads = <<>> /\ next = <<>> /\ slots = <<>>
    /\ launched = {} /\ clearDone = {} /\ stepDone = {}
    /\ buildSt = <<>> /\ prevReg = <<>> /\ seen = <<>> /\ accepted = <<>>
    /\ drawn = {} /\ tickNo = 0
    /\ call = <<>>

Init == HostInit /\ GpuAtRest

Next == HostNext

Spec == Init /\ [][Next]_vars

\* ------------------------------------------------------------- claims on Spec

TickPcs == {"fr_clear", "fr_build", "fr_step"}

InBox(q) == \A k \in 1 .. 3 : WorldMin <= q[k] /\ q[k] <= WorldMax

\* C3: while the buffers are ready the two particle handles name two distinct
\* allocated particle buffers; the integrate pass reads particlesSSBO[0] through
\* binding 0 and writes particlesSSBO[1] through binding 1, two different buffers;
\* and the swap leaves the same two handles, exchanged.
C3_PingPongSeparation ==
    /\ buffersReady =>
          /\ particlesSSBO[0] # 0 /\ particlesSSBO[1] # 0
          /\ particlesSSBO[0] # particlesSSBO[1]
          /\ buffers[particlesSSBO[0]].kind = "particles"
          /\ buffers[particlesSSBO[1]].kind = "particles"
    /\ glpc = "fr_swap" =>
          /\ binding[0] = particlesSSBO[0] /\ binding[1] = particlesSSBO[1]
          /\ binding[0] # binding[1]
    /\ glpc = "fr_draw" /\ buffersReady =>
          /\ particlesSSBO[0] = binding[1] /\ particlesSSBO[1] = binding[0]

\* a tick has just swapped, after an earlier tick and at least two reallocations
C3_Witness ==
    /\ glpc = "fr_draw" /\ buffersReady
    /\ hist.prevWritten # 0
    /\ hist.epoch = 0

\* C4: once a tick has completed, the buffer its integrate pass wrote is
\* particlesSSBO[0]: the draw of the same frame binds it, and the build and integrate
\* passes of the next tick on these buffers read it.
C4_WrittenBecomesCurrent ==
    /\ glpc \in {"fr_draw", "fr_end"} /\ buffersReady => particlesSSBO[0] = hist.lastWritten
    /\ glpc = "fr_end" /\ buffersReady => binding[0] = hist.lastWritten
    /\ glpc = "idle" /\ buffersReady /\ hist.lastWritten # 0 =>
          particlesSSBO[0] = hist.lastWritten
    /\ glpc = "fr_step" /\ hist.lastWritten # 0 => binding[0] = hist.lastWritten
    /\ glpc = "fr_swap" /\ hist.prevWritten # 0 => binding[0] = hist.prevWritten

\* the second tick in a row has been dispatched: it read what the first one wrote
C4_Witness ==
    /\ glpc = "fr_swap"
    /\ hist.prevWritten # 0
    /\ binding[0] = hist.prevWritten

C9_ResizeContract ==
    /\ currentParticleCount \in MinParticles .. MaxParticles
    /\ hist.asked /\ glpc = "idle" =>
          currentParticleCount = Min(Max(hist.requested, 1), 100000)
    /\ glpc \in {"rb_gen", "rb_fill"} =>
          currentParticleCount = Min(Max(rebuildArg, 1), 100000)
    /\ \A n \in BufferNames :
          buffers[n].kind \in {"particles", "next"} => buffers[n].size = currentParticleCount

\* 150000 particles were asked for and the reallocation is done
C9_Witness ==
    /\ glpc = "idle" /\ buffersReady
    /\ hist.asked /\ hist.requested = 150000
    /\ currentParticleCount = 100000
    /\ buffers[particlesSSBO[0]].size = 100000

\* C10: when a reallocation has filled the buffers, the current buffer holds only
\* particles generated by this reallocation, never rewritten by a tick, each with a
\* position inside the box, a heading of length one and a speed in [minSpeed, maxSpeed].
C10_PopulationRegenerated ==
    glpc = "rb_ready" =>
        LET cur == buffers[particlesSSBO[0]]
        IN  /\ cur.kind = "particles"
            /\ cur.size = currentParticleCount
            /\ cur.vals # {}
            /\ \A v \in cur.vals :
                  /\ v.epoch = hist.epoch
                  /\ v.ticks = 0
                  /\ InBox(v.pos)
                  /\ Length(v.dir) = Scale
                  /\ params.minSpeed <= v.speed /\ v.speed <= params.maxSpeed

\* a reallocation done when the second buffer was the current one
C10_Witness ==
    /\ glpc = "rb_ready"
    /\ hist.swapped
    /\ hist.epoch = 0

\* The four buffers exist: every handle names a buffer object with a data store
AllAllocated ==
    /\ particlesSSBO[0] # 0 /\ particlesSSBO[1] # 0 /\ cellHeadsSSBO # 0 /\ nextIndexSSBO # 0
    /\ buffers[particlesSSBO[0]].kind = "particles"
    /\ buffers[particlesSSBO[1]].kind = "particles"
    /\ buffers[cellHeadsSSBO].kind = "heads"
    /\ buffers[nextIndexSSBO].kind = "next"

RebuildPcs == {"rb_delete", "rb_grid", "rb_gen", "rb_fill", "rb_ready"}

\* C11: buffersReady is false in every state of a rebuild after deleteBuffers and in
\* every state after shutdown; whenever it is true the four buffers are allocated,
\* and outside a running rebuild it is true whenever they are; a tick is dispatched
\* only while it is true.
C11_ReadinessFlag ==
    /\ glpc \in RebuildPcs \ {"rb_delete"} => ~buffersReady
    /\ lifecycle = "closed" => ~buffersReady
    /\ buffersReady => AllAllocated
    /\ glpc \notin RebuildPcs /\ AllAllocated => buffersReady
    /\ glpc \in TickPcs \cup {"fr_swap"} => buffersReady

\* a reallocation has deleted buffers that had been ticked and has not yet created
\* the new ones
C11_Witness ==
    /\ glpc = "rb_gen"
    /\ hist.swapped
    /\ ~buffersReady
    /\ particlesSSBO[0] = 0

\* Every phase of the pipeline has left its mark / none has
PipelineDone ==
    /\ buffers[cellHeadsSSBO].state = "built"
    /\ buffers[nextIndexSSBO].state = "built"
    /\ buffers[particlesSSBO[0]].state = "stepped"
    /\ hist.lastWritten = particlesSSBO[0]

PipelineNotRun ==
    /\ buffers[cellHeadsSSBO].state = "empty"
    /\ buffers[nextIndexSSBO].state = "uninit"
    /\ buffers[particlesSSBO[0]].state = "generated"
    /\ buffers[particlesSSBO[1]].state = "uninit"
    /\ hist.lastWritten = 0

\* C12: the draw of a frame sees the buffers after all of clear, build, integrate and
\* swap, or, when the buffers are not ready, no buffers at all; a parameter update, a
\* rebuild and the next tick find the buffers either as a complete tick or as the
\* rebuild left them; the phases run only with buffers ready, shaders loaded and
\* compute available.
C12_TickAtomic ==
    /\ glpc \in {"fr_draw", "fr_end"} /\ buffersReady => PipelineDone
    /\ glpc \in {"fr_draw", "fr_end"} /\ ~buffersReady =>
          \A n \in BufferNames : buffers[n].kind = "free"
    /\ glpc \in {"idle", "rb_delete", "fr_clear"} /\ buffersReady =>
          PipelineDone \/ PipelineNotRun
    /\ glpc \in TickPcs \cup {"fr_swap"} =>
          buffersReady /\ shadersLoaded /\ computeAvailable

\* a rebuild is about to delete buffers that two complete ticks have written
C12_Witness ==
    /\ glpc = "rb_delete"
    /\ buffersReady
    /\ PipelineDone
    /\ buffers[particlesSSBO[1]].state = "stepped"

\* ------------------------------------------------------------- the compute passes
\* The three compute shaders are described in docs/TECHNICAL.md (lines 216-286); the
\* dispatches, the bindings and the barriers are those of dispatchComputePasses.

TickParticles == 2
MaxTicks == 2
KMaxNeighbours == 64

Particles == 0 .. currentParticleCount - 1
Cells == 0 .. cellCount - 1

\* (mutant: the cell coordinate left as computed, without the clamp)
CellCoordUnclamped(x, k) == (x - WorldMin) \div cellSize

\* cell = floor ((pos - worldMin) / cellSize), clamped to [0, gridDims - 1]
CellCoord(x, k) == jlimit(0, gridDims[k] - 1, (x - WorldMin) \div cellSize)

CellCoords(q) == <<CellCoord(q[1], 1), CellCoord(q[2], 2), CellCoord(q[3], 3)>>

\* cellIndex = x + gridDims.x * (y + gridDims.y * z)
Flatten(c) == c[1] + gridDims[1] * (c[2] + gridDims[2] * c[3])

CellIndex(q) == Flatten(CellCoords(q))

\* for (j = head[cell]; j != -1; j = next[j]), at most fuel particles examined; an
\* index outside the array ends the walk
RECURSIVE WalkList(_, _)
WalkList(j, fuel) ==
    IF fuel = 0 \/ j \notin DOMAIN next THEN <<>>
    ELSE <<j>> \o WalkList(next[j], fuel - 1)

\* (dx, dy, dz) in [-1, 0, 1]^3, out-of-bounds neighbour cells skipped
NeighbourCells(c) ==
    {Flatten(<<c[1] + dx, c[2] + dy, c[3] + dz>>) :
        <<dx, dy, dz>> \in {o \in {-1, 0, 1} \X {-1, 0, 1} \X {-1, 0, 1} :
            \A k \in 1 .. 3 : c[k] + o[k] >= 0 /\ c[k] + o[k] < gridDims[k]}}

RECURSIVE ScanCells(_, _)
ScanCells(cs, fuel) ==
    IF cs = {} THEN <<>>
    ELSE LET c == CHOOSE x \in cs : \A y \in cs : x <= y
             l == WalkList(heads[c], fuel)
         IN  l \o ScanCells(cs \ {c}, fuel - Len(l))

\* The particles the neighbour scan of particle i examines, in scan order
Examined(i) == ScanCells(NeighbourCells(CellCoords(slots[binding[0]][i].pos)), KMaxNeighbours)

\* (mutant: a barrier that lets the following commands start at once)
BarrierIgnored(pending) == TRUE

\* glMemoryBarrier (GL_SHADER_STORAGE_BARRIER_BIT) after a dispatch: the commands
\* that follow wait for the writes of the units still pending
BarrierPassed(pending) == pending = {}

Launch(pass) ==
    /\ pass \notin launched
    /\ launched' = launched \cup {pass}

\* render () reaches dispatchComputePasses: a new tick
TickRender ==
    /\ tickNo < MaxTicks
    /\ EnterFrame
    /\ launched' = {}
    /\ clearDone' = {}
    /\ stepDone' = {}
    /\ buildSt' = [i \in Particles |-> "pending"]
    /\ prevReg' = [i \in Particles |-> -1]
    /\ seen' = [i \in Particles |-> <<>>]
    /\ drawn' = {}
    /\ UNCHANGED <<heads, next, slots, accepted, tickNo, call, shaders, files, msg>>

\* lines 751-756: bind CellHeads, dispatch the clear pass
DispatchClear ==
    /\ glpc = "fr_clear"
    /\ Launch("clear")
    /\ binding' = Bound(binding, {<<2, cellHeadsSSBO>>})
    /\ UNCHANGED <<lifecycle, glpc, params, currentParticleCount, cellSize, gridDims,
                   cellCount, particlesSSBO, cellHeadsSSBO, nextIndexSSBO, buffers,
                   buffersReady, shadersLoaded, computeAvailable, rebuildArg, hist>>
    /\ UNCHANGED <<heads, next, slots, clearDone, buildSt, prevReg, stepDone, seen,
                   accepted, drawn, tickNo, call, shaders, files, msg>>

\* boids_clear.comp, invocation c: head[c] = -1
ClearUnit(c) ==
    /\ "clear" \in launched
    /\ c \notin clearDone
    /\ heads' = [heads EXCEPT ![c] = -1]
    /\ clearDone' = clearDone \cup {c}
    /\ UNCHANGED <<hostVars, call>>
    /\ UNCHANGED <<next, slots, launched, buildSt, prevReg, stepDone, seen, accepted,
                   drawn, tickNo, call, shaders, files, msg>>

\* line 757: the barrier after the clear pass
ClearBarrier ==
    /\ glpc = "fr_clear"
    /\ "clear" \in launched
    /\ BarrierPassed(Cells \ clearDone)
    /\ glpc' = "fr_build"
    /\ UNCHANGED <<lifecycle, params, currentParticleCount, cellSize, gridDims, cellCount,
                   particlesSSBO, cellHeadsSSBO, nextIndexSSBO, buffers, binding,
                   buffersReady, shadersLoaded, computeAvailable, rebuildArg, hist>>
    /\ UNCHANGED <<gpuVars, call, shaders, files, msg>>

\* lines 760-771: bind the current particles, CellHeads and NextIndex, dispatch build
DispatchBuild ==
    /\ glpc = "fr_build"
    /\ Launch("build")
    /\ binding' = Bound(binding, {<<0, particlesSSBO[0]>>, <<2, cellHeadsSSBO>>,
                                  <<3, nextIndexSSBO>>})
    /\ UNCHANGED <<lifecycle, glpc, params, currentParticleCount, cellSize, gridDims,
                   cellCount, particlesSSBO, cellHeadsSSBO, nextIndexSSBO, buffers,
                   buffersReady, shadersLoaded, computeAvailable, rebuildArg, hist>>
    /\ UNCHANGED <<heads, next, slots, clearDone, buildSt, prevReg, stepDone, seen,
                   accepted, drawn, tickNo, call, shaders, files, msg>>

\* (mutant: the exchange done as a load followed, in a later step, by a store)
LoadThenStore(i) ==
    LET c == CellIndex(slots[binding[0]][i].pos)
    IN  \/ /\ buildSt[i] = "pending"
           /\ prevReg' = [prevReg EXCEPT ![i] = heads[c]]
           /\ buildSt' = [buildSt EXCEPT ![i] = "loaded"]
           /\ heads' = heads
        \/ /\ buildSt[i] = "loaded"
           /\ heads' = [heads EXCEPT ![c] = i]
           /\ buildSt' = [buildSt EXCEPT ![i] = "exchanged"]
           /\ prevReg' = prevReg

\* boids_build.comp, invocation i: prev = atomicExchange (head[cellIndex], i)
AtomicExchange(i) ==
    LET c == CellIndex(slots[binding[0]][i].pos)
    IN  /\ buildSt[i] = "pending"
        /\ prevReg' = [prevReg EXCEPT ![i] = heads[c]]
        /\ heads' = [heads EXCEPT ![c] = i]
        /\ buildSt' = [buildSt EXCEPT ![i] = "exchanged"]

BuildExchange(i) ==
    /\ "build" \in launched
    /\ AtomicExchange(i)
    /\ UNCHANGED <<hostVars, call>>
    /\ UNCHANGED <<next, slots, launched, clearDone, stepDone, seen, accepted, drawn,
                   tickNo, call, shaders, files, msg>>

\* boids_build.comp, invocation i: next[i] = prev
BuildLink(i) ==
    /\ "build" \in launched
    /\ buildSt[i] = "exchanged"
    /\ next' = [next EXCEPT ![i] = prevReg[i]]
    /\ buildSt' = [buildSt EXCEPT ![i] = "done"]
    /\ UNCHANGED <<hostVars, call>>
    /\ UNCHANGED <<heads, slots, launched, clearDone, prevReg, stepDone, seen, accepted,
                   drawn, tickNo, call, shaders, files, msg>>

\* line 772: the barrier after the build pass
BuildBarrier ==
    /\ glpc = "fr_build"
    /\ "build" \in launched
    /\ BarrierPassed({i \in Particles : buildSt[i] # "done"})
    /\ glpc' = "fr_step"
    /\ UNCHANGED <<lifecycle, params, currentParticleCount, cellSize, gridDims, cellCount,
                   particlesSSBO, cellHeadsSSBO, nextIndexSSBO, buffers, binding,
                   buffersReady, shadersLoaded, computeAvailable, rebuildArg, hist>>
    /\ UNCHANGED <<gpuVars, call, shaders, files, msg>>

\* (mutant: the output binding given the buffer of the input binding)
DispatchStepInPlace ==
    /\ glpc = "fr_step"
    /\ Launch("step")
    /\ binding' = Bound(binding, {<<0, particlesSSBO[0]>>, <<1, particlesSSBO[0]>>,
                                  <<2, cellHeadsSSBO>>, <<3, nextIndexSSBO>>})
    /\ UNCHANGED <<lifecycle, glpc, params, currentParticleCount, cellSize, gridDims,
                   cellCount, particlesSSBO, cellHeadsSSBO, nextIndexSSBO, buffers,
                   buffersReady, shadersLoaded, computeAvailable, rebuildArg, hist>>
    /\ UNCHANGED <<heads, next, slots, clearDone, buildSt, prevReg, stepDone, seen,
                   accepted, drawn, tickNo, call, shaders, files, msg>>

\* lines 775-811: bind input, output, CellHeads and NextIndex, dispatch the step pass
DispatchStep ==
    /\ glpc = "fr_step"
    /\ Launch("step")
    /\ binding' = Bound(binding, {<<0, particlesSSBO[0]>>, <<1, particlesSSBO[1]>>,
                                  <<2, cellHeadsSSBO>>, <<3, nextIndexSSBO>>})
    /\ UNCHANGED <<lifecycle, glpc, params, currentParticleCount, cellSize, gridDims,
                   cellCount, particlesSSBO, cellHeadsSSBO, nextIndexSSBO, buffers,
                   buffersReady, shadersLoaded, computeAvailable, rebuildArg, hist>>
    /\ UNCHANGED <<heads, next, slots, clearDone, buildSt, prevReg, stepDone, seen,
                   accepted, drawn, tickNo, call, shaders, files, msg>>

\* The positions an integrate unit may write: SpecTick does not follow the arithmetic
\* of the step, any of these points can be the result (one of them outside the box).
StepPosSamples ==
    {<<0, WorldMax - 1, WorldMin>>, <<WorldMax + Scale, -1, WorldMin - Scale>>}

\* boids_step.comp, invocation i: scan the neighbour cells, write slot i of the output
StepUnit(i, q) ==
    /\ "step" \in launched
    /\ i \notin stepDone
    /\ seen' = [seen EXCEPT ![i] = Examined(i)]
    /\ slots' = [slots EXCEPT ![binding[1]][i] = [pos |-> q, tick |-> tickNo + 1]]
    /\ stepDone' = stepDone \cup {i}
    /\ UNCHANGED <<hostVars, call>>
    /\ UNCHANGED <<heads, next, launched, clearDone, buildSt, prevReg, accepted, drawn,
                   tickNo, call, shaders, files, msg>>

\* line 812: the barrier after the step pass
StepBarrier ==
    /\ glpc = "fr_step"
    /\ "step" \in launched
    /\ BarrierPassed(Particles \ stepDone)
    /\ glpc' = "fr_swap"
    /\ UNCHANGED <<lifecycle, params, currentParticleCount, cellSize, gridDims, cellCount,
                   particlesSSBO, cellHeadsSSBO, nextIndexSSBO, buffers, binding,
                   buffersReady, shadersLoaded, computeAvailable, rebuildArg, hist>>
    /\ UNCHANGED <<gpuVars, call, shaders, files, msg>>

TickSwap == SwapHandles /\ UNCHANGED <<gpuVars, call, shaders, files, msg>>

\* glDrawArrays (GL_POINTS, 0, currentParticleCount): the vertex shader reads
\* p[gl_VertexID] through binding 0
TickDraw ==
    /\ BindAndDraw
    /\ drawn' = {slots[particlesSSBO[0]][i] : i \in Particles}
    /\ UNCHANGED <<heads, next, slots, launched, clearDone, buildSt, prevReg, stepDone,
                   seen, accepted, tickNo, call, shaders, files, msg>>

TickEnd ==
    /\ LeaveFrame
    /\ tickNo' = tickNo + 1
    /\ UNCHANGED <<heads, next, slots, launched, clearDone, buildSt, prevReg, stepDone,
                   seen, accepted, drawn, call, shaders, files, msg>>

\* Neighbor radii of the tick runs: 10.0 makes a grid of 2 x 2 x 2 cells, 20.0 a grid
\* of a single cell
TickRadii == {10 * Scale, 20 * Scale}

\* The state after initialise () and its rebuild with TickParticles particles: the
\* population in particlesSSBO[0]; particlesSSBO[1] and NextIndex without data
\* (whatever the stores hold); CellHeads filled with -1.
TickInit ==
    \E r \in TickRadii, g \in {-1, 0, TickParticles - 1}, junk \in StepPosSamples :
    \E f \in [0 .. TickParticles - 1 -> PosSamples] :
        /\ lifecycle = "running"
        /\ glpc = "idle"
        /\ params = ClampParams([DefaultParams EXCEPT !.neighborRadius = r])
        /\ currentParticleCount = ClampCount(TickParticles)
        /\ cellSize = GridFor(r).cellSize
        /\ gridDims = GridFor(r).gridDims
        /\ cellCount = GridFor(r).cellCount
        /\ particlesSSBO = [i \in 0 .. 1 |-> i + 1]
        /\ cellHeadsSSBO = 3
        /\ nextIndexSSBO = 4
        /\ buffers = [n \in BufferNames |->
              IF n = 1 THEN [kind |-> "particles", size |-> TickParticles,
                             state |-> "generated", vals |-> {}]
              ELSE IF n = 2 THEN [kind |-> "particles", size |-> TickParticles,
                                  state |-> "uninit", vals |-> {}]
              ELSE IF n = 3 THEN [kind |-> "heads", size |-> GridFor(r).cellCount,
                                  state |-> "empty", vals |-> {}]
              ELSE IF n = 4 THEN [kind |-> "next", size |-> TickParticles,
                                  state |-> "uninit", vals |-> {}]
              ELSE FreeBuffer]
        /\ binding = [b \in 0 .. 3 |-> 0]
        /\ buffersReady = TRUE
        /\ shadersLoaded = TRUE
        /\ computeAvailable = TRUE
        /\ shaders = LoadedShaders
        /\ files = InitFiles
        /\ msg = MsgInit
        /\ rebuildArg = TickParticles
        /\ hist = [NoHist EXCEPT !.epoch = 1, !.builtRadius = r,
                                 !.builtCount = TickParticles]
        /\ heads = [c \in 0 .. GridFor(r).cellCount - 1 |-> -1]
        /\ next = [i \in 0 .. TickParticles - 1 |-> g]
        /\ slots = [n \in {1, 2} |->
              [i \in 0 .. TickParticles - 1 |->
                  IF n = 1 THEN [pos |-> f[i], tick |-> 0]
                  ELSE [pos |-> junk, tick |-> -1]]]
        /\ launched = {}
        /\ clearDone = {}
        /\ stepDone = {}
        /\ buildSt = [i \in 0 .. TickParticles - 1 |-> "pending"]
        /\ prevReg = [i \in 0 .. TickParticles - 1 |-> -1]
        /\ seen = [i \in 0 .. TickParticles - 1 |-> <<>>]
        /\ accepted = <<>>
        /\ drawn = {}
        /\ tickNo = 0
        /\ call = <<>>

TickNext ==
    \/ TickRender
    \/ DispatchClear
    \/ \E c \in Cells : ClearUnit(c)
    \/ ClearBarrier
    \/ DispatchBuild
    \/ \E i \in Particles : BuildExchange(i)
    \/ \E i \in Particles : BuildLink(i)
    \/ BuildBarrier
    \/ DispatchStep
    \/ \E i \in Particles, q \in StepPosSamples : StepUnit(i, q)
    \/ StepBarrier
    \/ TickSwap
    \/ TickDraw
    \/ TickEnd

SpecTick == TickInit /\ [][TickNext]_vars

\* ------------------------------------------------------------- claims on SpecTick

\* The position the build and step passes read for particle i
PosOf(i) == slots[binding[0]][i].pos

\* Where the walk from j stops: -1 at the end of a list, another value if the walk
\* leaves the array or does not end within fuel steps
RECURSIVE WalkEnd(_, _)
WalkEnd(j, fuel) ==
    IF fuel = 0 \/ j \notin DOMAIN next THEN j ELSE WalkEnd(next[j], fuel - 1)

ListOf(c) == WalkList(heads[c], currentParticleCount + 1)

Occurrences(i) ==
    {<<c, k>> \in Cells \X (1 .. currentParticleCount + 1) :
        k <= Len(ListOf(c)) /\ ListOf(c)[k] = i}

RECURSIVE TotalLength(_)
TotalLength(cs) ==
    IF cs = {} THEN 0
    ELSE LET c == CHOOSE x \in cs : TRUE IN Len(ListOf(c)) + TotalLength(cs \ {c})

AllBuilt ==
    /\ glpc \in {"fr_build", "fr_step"}
    /\ "build" \in launched
    /\ \A i \in Particles : buildSt[i] = "done"

\* C1: once every build unit has done its exchange and its next write, in whatever
\* order the units interleaved, every list ends at -1 without a cycle, every particle
\* index occurs exactly once over all lists and in the list of the cell its position
\* maps to, the lists have N entries in total, and when all particles map to one cell
\* that cell's list has N entries and every other head is -1.
C1_GridComplete ==
    AllBuilt =>
        /\ \A c \in Cells : WalkEnd(heads[c], currentParticleCount + 1) = -1
        /\ \A i \in Particles :
              /\ Cardinality(Occurrences(i)) = 1
              /\ \E k \in 1 .. Len(ListOf(CellIndex(PosOf(i)))) :
                    ListOf(CellIndex(PosOf(i)))[k] = i
        /\ TotalLength(Cells) = currentParticleCount
        /\ \A c \in Cells :
              (\A i \in Particles : CellIndex(PosOf(i)) = c) =>
                  /\ Len(ListOf(c)) = currentParticleCount
                  /\ \A d \in Cells \ {c} : heads[d] = -1

\* the second tick has built the grid of 8 cells with all particles, which have left
\* the box, in a single cell
C1_Witness ==
    /\ AllBuilt
    /\ tickNo = 1
    /\ cellCount = 8
    /\ \A i \in Particles : ~InBox(PosOf(i)) /\ CellIndex(PosOf(i)) = 1
    /\ Len(ListOf(1)) = currentParticleCount

\* The particles filed in the cells the scan of particle i visits
InNeighbourCells(i) ==
    {j \in Particles : CellIndex(PosOf(j)) \in NeighbourCells(CellCoords(PosOf(i)))}

\* C2: in every tick, a build unit has touched CellHeads only if every clear unit has
\* run; an integrate unit has run only if every build unit has done its exchange and
\* its next write, and it has then walked complete lists; the swap and the draw happen
\* only when every integrate unit has run, and the draw reads only slots this tick wrote.
C2_PhaseOrder ==
    /\ (\E i \in Particles : buildSt[i] # "pending") => clearDone = Cells
    /\ stepDone # {} => \A i \in Particles : buildSt[i] = "done"
    /\ \A i \in stepDone :
          /\ {seen[i][k] : k \in 1 .. Len(seen[i])} = InNeighbourCells(i)
          /\ Len(seen[i]) = Cardinality(InNeighbourCells(i))
    /\ glpc \in {"fr_draw", "fr_end"} => stepDone = Particles
    /\ glpc = "fr_end" => \A sl \in drawn : sl.tick = tickNo + 1
    /\ glpc = "fr_build" => "clear" \in launched
    /\ glpc = "fr_step" => {"clear", "build"} \subseteq launched
    /\ glpc \in {"fr_swap", "fr_draw", "fr_end"} => launched = {"clear", "build", "step"}

\* the second tick on the grid of 8 cells has been drawn
C2_Witness ==
    /\ glpc = "fr_end"
    /\ tickNo = 1
    /\ cellCount = 8
    /\ drawn # {}

\* The memory a step changes, and the units that ran in it
ChangedHeads == {c \in Cells : heads'[c] # heads[c]}
ChangedNext == {i \in Particles : next'[i] # next[i]}
ChangedSlots ==
    {<<n, i>> \in (DOMAIN slots) \X Particles : slots'[n][i] # slots[n][i]}
ClearedNow == clearDone' \ clearDone
ExchangedNow == {i \in Particles : buildSt[i] = "pending" /\ buildSt'[i] = "exchanged"}
LinkedNow == {i \in Particles : buildSt[i] = "exchanged" /\ buildSt'[i] = "done"}
SteppedNow == stepDone' \ stepDone

\* the cell the current buffer gives for particle i
CurrentCell(i) == CellIndex(slots[particlesSSBO[0]][i].pos)

DisjointWrites ==
    /\ ChangedNext \subseteq LinkedNow
    /\ ChangedHeads \subseteq ClearedNow \cup {CurrentCell(i) : i \in ExchangedNow}
    /\ ChangedSlots \subseteq {<<particlesSSBO[1], i>> : i \in SteppedNow}
    /\ SteppedNow # {} => particlesSSBO[1] # particlesSSBO[0]
    /\ ExchangedNow # {} => ChangedNext = {} /\ ChangedSlots = {} /\ Cardinality(ChangedHeads) <= 1
    /\ LinkedNow # {} => ChangedHeads = {} /\ ChangedSlots = {}
    /\ SteppedNow # {} => ChangedHeads = {} /\ ChangedNext = {}
    /\ \A i \in ExchangedNow : heads'[CurrentCell(i)] = i
    /\ \A i \in LinkedNow : next'[i] = prevReg[i]

\* C20: a step of build unit i changes nothing but one entry of CellHeads, that of
\* the cell of particle i, or nothing but next[i]; a step of integrate unit i changes
\* nothing but slot i of the next buffer, so the current buffer, CellHeads and
\* NextIndex are as before; no step changes a next entry or a slot of another
\* particle than the unit's, and a clear unit changes only its own head entry.
C20_DisjointWrites == [][DisjointWrites]_vars

\* a tick in which two build units exchanged on the same head entry (one is linked
\* behind the other) has run all its integrate units, and their slots differ from
\* the current buffer's
C20_Witness ==
    /\ glpc = "fr_swap"
    /\ stepDone = Particles
    /\ \E i \in Particles : next[i] \in Particles /\ CurrentCell(i) = CurrentCell(next[i])
    /\ \A i \in Particles : slots[particlesSSBO[1]][i].tick = tickNo + 1
    /\ \A i \in Particles : slots[particlesSSBO[0]][i].tick = tickNo

\* ------------------------------------------------------------- the neighbour scan
\* SpecScan follows the neighbour query of the step pass with its distance test, on a
\* grid of 20 x 20 x 20 cells built for neighborRadius 1.0, with particles near the
\* corner worldMin so that squared distances stay within 32 bits.

ScanParticles == 3

ScanBuiltRadius == Scale

\* The stored neighborRadius: the grid was built for ScanBuiltRadius, and later
\* updates that differ from the stored value by at most 1.0e-4 have moved it
ScanRadii ==
    {r \in ScanBuiltRadius - RadiusChangeEps .. ScanBuiltRadius + RadiusChangeEps :
        ~NeighborRadiusChanged([neighborRadius |-> r], [neighborRadius |-> ScanBuiltRadius])}

ScanPoints ==
    {<<WorldMin + x, WorldMin + y, WorldMin>> :
        <<x, y>> \in {<<ScanBuiltRadius - 1, 0>>, <<2 * ScanBuiltRadius, 0>>,
                      <<ScanBuiltRadius, 0>>, <<ScanBuiltRadius - 1, ScanBuiltRadius>>,
                      <<-3, 0>>}}

\* dist2 = dot (d, d)
Dist2(a, b) ==
    (a[1] - b[1]) * (a[1] - b[1]) + (a[2] - b[2]) * (a[2] - b[2])
        + (a[3] - b[3]) * (a[3] - b[3])

\* dist2 <= neighborRadius^2
InRadius(a, b) == Dist2(a, b) <= params.neighborRadius * params.neighborRadius

\* The neighbours the scan of particle i keeps: examined, not i itself, in the radius
Accepted(i) ==
    LET ex == Examined(i)
    IN  {j \in {ex[k] : k \in 1 .. Len(ex)} : j # i /\ InRadius(PosOf(j), PosOf(i))}

\* All pairs, without the grid
BruteForce(i) == {j \in Particles \ {i} : InRadius(PosOf(j), PosOf(i))}

\* The build pass run to its end with the units taking their turns in the order seq:
\* each unit's exchange and next write
RECURSIVE InsertAll(_, _, _)
InsertAll(seq, h, n) ==
    IF seq = <<>> THEN [heads |-> h, next |-> n]
    ELSE LET i == Head(seq)
             c == CellIndex(PosOf(i))
         IN  InsertAll(Tail(seq), [h EXCEPT ![c] = i], [n EXCEPT ![i] = h[c]])

Orders == {seq \in [1 .. currentParticleCount -> Particles] :
              \A a, b \in 1 .. currentParticleCount : seq[a] = seq[b] => a = b}

ScanInit ==
    \E r \in ScanRadii : \E f \in [0 .. ScanParticles - 1 -> ScanPoints] :
        /\ lifecycle = "running"
        /\ glpc = "fr_build"
        /\ params = [ClampParams([DefaultParams EXCEPT !.neighborRadius = ScanBuiltRadius])
                        EXCEPT !.neighborRadius = r]
        /\ currentParticleCount = ClampCount(ScanParticles)
        /\ cellSize = GridFor(ScanBuiltRadius).cellSize
        /\ gridDims = GridFor(ScanBuiltRadius).gridDims
        /\ cellCount = GridFor(ScanBuiltRadius).cellCount
        /\ particlesSSBO = [i \in 0 .. 1 |-> i + 1]
        /\ cellHeadsSSBO = 3
        /\ nextIndexSSBO = 4
        /\ buffers = [n \in BufferNames |->
              IF n \in {1, 2} THEN [kind |-> "particles", size |-> ScanParticles,
                                    state |-> "stepped", vals |-> {}]
              ELSE IF n = 3 THEN [kind |-> "heads", size |-> GridFor(ScanBuiltRadius).cellCount,
                                  state |-> "cleared", vals |-> {}]
              ELSE IF n = 4 THEN [kind |-> "next", size |-> ScanParticles,
                                  state |-> "built", vals |-> {}]
              ELSE FreeBuffer]
        /\ binding = [b \in 0 .. 3 |-> b + 1]
        /\ buffersReady = TRUE
        /\ shadersLoaded = TRUE
        /\ computeAvailable = TRUE
        /\ shaders = LoadedShaders
        /\ files = InitFiles
        /\ msg = MsgInit
        /\ rebuildArg = ScanParticles
        /\ hist = [NoHist EXCEPT !.epoch = 1, !.builtRadius = ScanBuiltRadius,
                                 !.builtCount = ScanParticles]
        /\ heads = [c \in 0 .. GridFor(ScanBuiltRadius).cellCount - 1 |-> -1]
        /\ next = [i \in 0 .. ScanParticles - 1 |-> -1]
        /\ slots = [n \in {1, 2} |->
              [i \in 0 .. ScanParticles - 1 |-> [pos |-> f[i], tick |-> 1]]]
        /\ launched = {"clear", "build"}
        /\ clearDone = {}
        /\ stepDone = {}
        /\ buildSt = [i \in 0 .. ScanParticles - 1 |-> "pending"]
        /\ prevReg = [i \in 0 .. ScanParticles - 1 |-> -1]
        /\ seen = [i \in 0 .. ScanParticles - 1 |-> <<>>]
        /\ accepted = [i \in 0 .. ScanParticles - 1 |-> {}]
        /\ drawn = {}
        /\ tickNo = 1
        /\ call = <<>>

\* The build pass and its barrier, the units in any order
ScanBuild(seq) ==
    /\ glpc = "fr_build"
    /\ \A i \in Particles : buildSt[i] = "pending"
    /\ heads' = InsertAll(seq, heads, next).heads
    /\ next' = InsertAll(seq, heads, next).next
    /\ buildSt' = [i \in Particles |-> "done"]
    /\ glpc' = "fr_step"
    /\ launched' = launched \cup {"step"}
    /\ UNCHANGED <<lifecycle, params, currentParticleCount, cellSize, gridDims, cellCount,
                   particlesSSBO, cellHeadsSSBO, nextIndexSSBO, buffers, binding,
                   buffersReady, shadersLoaded, computeAvailable, rebuildArg, hist>>
    /\ UNCHANGED <<slots, clearDone, prevReg, stepDone, seen, accepted, drawn, tickNo,
                   call, shaders, files, msg>>

\* boids_step.comp, invocation i, as far as its neighbour query
ScanUnit(i) ==
    /\ glpc = "fr_step"
    /\ i \notin stepDone
    /\ seen' = [seen EXCEPT ![i] = Examined(i)]
    /\ accepted' = [accepted EXCEPT ![i] = Accepted(i)]
    /\ stepDone' = stepDone \cup {i}
    /\ UNCHANGED <<hostVars, call>>
    /\ UNCHANGED <<heads, next, slots, launched, clearDone, buildSt, prevReg, drawn,
                   tickNo, call, shaders, files, msg>>

ScanNext ==
    \/ \E seq \in Orders : ScanBuild(seq)
    \/ \E i \in Particles : ScanUnit(i)

SpecScan == ScanInit /\ [][ScanNext]_vars

\* ------------------------------------------------------------- claims on SpecScan

IntMax == 2147483647

GridExtents == {Scale \div 4, WorldMax - WorldMin, 100 * Scale, 1000 * Scale}

\* Worlds whose first cell count fits the int it is computed in (line 636)
GridWorlds ==
    {ws \in GridExtents \X GridExtents \X GridExtents :
        GridDim(ws[1], MinCellSize)
            <= IntMax \div (GridDim(ws[2], MinCellSize) * GridDim(ws[3], MinCellSize))}

\* Stored radii: the clamp limits of line 222 are the widest range
GridRadii == {NeighborRadiusLo, MinCellSize, DefaultNeighborRadius, 4 * Scale}

\* lines 624-650 applied to one world and one radius
ComputeGrid(ws, nr) ==
    /\ call = <<>>
    /\ call' = [fn |-> "grid", worldSize |-> ws, neighborRadius |-> nr,
                result |-> GridOf(ws, nr)]
    /\ UNCHANGED <<hostVars, gpuVars>>

GridNext == \E ws \in GridWorlds, nr \in GridRadii : ComputeGrid(ws, nr)

SpecGrid == Init /\ [][GridNext]_vars

\* ------------------------------------------------------------- claims on SpecGrid

Mantissa == 16777216

\* spacing of the 32-bit floats around x, in grid steps
Ulp(x) ==
    LET a == Abs(x)
    IN  IF a < Mantissa THEN 1
        ELSE IF a < 2 * Mantissa THEN 2
        ELSE IF a < 4 * Mantissa THEN 4
        ELSE IF a < 8 * Mantissa THEN 8
        ELSE IF a < 16 * Mantissa THEN 16
        ELSE IF a < 32 * Mantissa THEN 32
        ELSE IF a < 64 * Mantissa THEN 64
        ELSE 128

\* x / n rounded to the nearest whole number, ties to even, for n > 0
RoundDiv(x, n) ==
    LET a == Abs(x)
        q == a \div n
        r == a % n
        m == IF 2 * r > n \/ (2 * r = n /\ q % 2 = 1) THEN q + 1 ELSE q
    IN  IF x < 0 THEN -m ELSE m

FRound(x) == RoundDiv(x, Ulp(x)) * Ulp(x)
FAdd(a, b) == FRound(a + b)

\* x / n towards zero, for n > 0
Quo(x, n) == IF x < 0 THEN -((-x) \div n) ELSE x \div n

VZero == <<0, 0, 0>>
VAdd(a, b) == <<a[1] + b[1], a[2] + b[2], a[3] + b[3]>>
VSub(a, b) == <<a[1] - b[1], a[2] - b[2], a[3] - b[3]>>
VMul(k, a) == <<k * a[1], k * a[2], k * a[3]>>
VQuo(a, n) == <<Quo(a[1], n), Quo(a[2], n), Quo(a[3], n)>>
FVAdd(a, b) == <<FAdd(a[1], b[1]), FAdd(a[2], b[2]), FAdd(a[3], b[3])>>
FVSub(a, b) == <<FAdd(a[1], -b[1]), FAdd(a[2], -b[2]), FAdd(a[3], -b[3])>>
\* accumulator / float (count): correctly rounded
FVDiv(a, n) == <<FRound(RoundDiv(a[1], n)), FRound(RoundDiv(a[2], n)), FRound(RoundDiv(a[3], n))>>

MaxAbs(v) == Max(Abs(v[1]), Max(Abs(v[2]), Abs(v[3])))

\* integer square root (floor) of n < 2^31
GlSqrt(n) == ISqrtBetween(n, 0, 46341)

\* A vector brought to between 2^12 and 2^14 in its largest component: multiplied by
\* UpFactor or divided by DownFactor (one of them is 1)
UpFactor(m) == IF m = 0 \/ m >= 8192 THEN 1 ELSE 8192 \div m
DownFactor(m) == (m \div 16384) + 1
Scaled(v) ==
    LET k == UpFactor(MaxAbs(v))
        s == DownFactor(MaxAbs(v))
    IN  <<Quo(v[1] * k, s), Quo(v[2] * k, s), Quo(v[3] * k, s)>>
ScaledLength(v) ==
    LET w == Scaled(v)
    IN  GlSqrt(w[1] * w[1] + w[2] * w[2] + w[3] * w[3])

\* length (v), to the nearest grid step; exact for a vector along one axis
GlLength(v) ==
    IF Abs(v[1]) + Abs(v[2]) + Abs(v[3]) = MaxAbs(v) THEN MaxAbs(v)
    ELSE RoundDiv(ScaledLength(v) * DownFactor(MaxAbs(v)), UpFactor(MaxAbs(v)))

\* dot (d, d) <= r * r
WithinRadius(d, r) ==
    LET s == (Max(MaxAbs(d), r) \div 16384) + 1
    IN  Quo(d[1], s) * Quo(d[1], s) + Quo(d[2], s) * Quo(d[2], s)
          + Quo(d[3], s) * Quo(d[3], s) <= (r \div s) * (r \div s)

\* normalize (v)[a] * target: the component's share of the length in 4096ths
Rescale(v, a, target) ==
    LET ratio == Quo(Scaled(v)[a] * 4096, ScaledLength(v))
    IN  IF target < 524288 THEN Quo(target * ratio, 4096) ELSE Quo(target, 4096) * ratio

\* normalize (v) * target for v # 0; v itself when target is its length
ScaleTo(v, target) ==
    IF target = GlLength(v) THEN v
    ELSE <<Rescale(v, 1, target), Rescale(v, 2, target), Rescale(v, 3, target)>>

\* A host length (Scale steps to 1.0) in grid steps, for a unit that is a multiple of 32
ToGrid(x, unit) ==
    (x \div 625) * (unit \div 32) + ((x % 625) * (unit \div 32)) \div 625

\* onParamsChanged, lines 224-233: the stored weights, limits and boundary settings.
\* Weights, maxAccel, centerAttraction and boundaryStrength in whole units, simSpeed
\* in tenths, boundaryMargin in host steps.
ClampForces(p) ==
    [weightSeparation |-> jlimit(0, 50, p.weightSeparation),
     weightAlignment  |-> jlimit(0, 50, p.weightAlignment),
     weightCohesion   |-> jlimit(0, 50, p.weightCohesion),
     maxAccel         |-> jlimit(0, 10000, p.maxAccel),
     simSpeed         |-> jlimit(1, 20, p.simSpeed),
     centerAttraction |-> jlimit(0, 1000, p.centerAttraction),
     boundaryMargin   |-> jlimit(Scale \div 100, 1000 * Scale, p.boundaryMargin),
     boundaryStrength |-> jlimit(0, 10000, p.boundaryStrength),
     wrapBounds       |-> p.wrapBounds]

\* render, line 826: dt = juce::jlimit (0.0f, 0.05f, dt), in 1600ths of a second
DtScale == 1600
ClampDt(raw) == jlimit(0, DtScale \div 20, raw)

\* The members the step pass is given, in grid steps: the world, u_dt = dtSeconds *
\* simSpeed (line 788), radii, weights and limits
MemberValues(stored, forces, dt, unit) ==
    [unit             |-> unit,
     worldMin         |-> ToGrid(WorldMax, unit) * (-1),
     worldMax         |-> ToGrid(WorldMax, unit),
     dt               |-> (dt * forces.simSpeed) \div 10,
     neighborRadius   |-> ToGrid(stored.neighborRadius, unit),
     separationRadius |-> ToGrid(stored.separationRadius, unit),
     weightSeparation |-> forces.weightSeparation,
     weightAlignment  |-> forces.weightAlignment,
     weightCohesion   |-> forces.weightCohesion,
     minSpeed         |-> ToGrid(stored.minSpeed, unit),
     maxSpeed         |-> ToGrid(stored.maxSpeed, unit),
     maxAccel         |-> forces.maxAccel * unit,
     centerAttraction |-> forces.centerAttraction,
     boundaryMargin   |-> ToGrid(forces.boundaryMargin, unit),
     boundaryStrength |-> forces.boundaryStrength,
     wrapBounds       |-> forces.wrapBounds]

\* (mutant: u_wrapBounds set to wrapBounds ? 0 : 1)
StepUniformsWrapInverted(stored, forces, dt, unit) ==
    [MemberValues(stored, forces, dt, unit) EXCEPT !.wrapBounds = ~@]

\* (mutant: u_worldMin set from worldMax)
StepUniformsNoExtent(stored, forces, dt, unit) ==
    [MemberValues(stored, forces, dt, unit) EXCEPT !.worldMin = ToGrid(WorldMax, unit)]

\* (mutant: u_maxAccel set from maxSpeed)
StepUniformsAccelFromSpeed(stored, forces, dt, unit) ==
    [MemberValues(stored, forces, dt, unit) EXCEPT !.maxAccel = ToGrid(stored.maxSpeed, unit)]

\* dispatchComputePasses, lines 781-801: every uniform of the step pass is set from
\* the member of its name
StepUniforms(stored, forces, dt, unit) == MemberValues(stored, forces, dt, unit)

\* x * u_dt
MulDt(u, x) ==
    IF u.dt = 0 THEN 0
    ELSE IF DtScale % u.dt = 0 THEN Quo(x, DtScale \div u.dt)
    ELSE Quo(x * u.dt, DtScale)
VMulDt(u, v) == <<MulDt(u, v[1]), MulDt(u, v[2]), MulDt(u, v[3])>>

\* clamp (x, lo, hi) of GLSL: min (max (x, lo), hi)
GlClamp(x, lo, hi) == Min(Max(x, lo), hi)

\* the eps of d / (dist2 + eps), in squared grid steps
SepEps == 1

\* d / (dist2 + eps)
Repulsion(u, d) ==
    VQuo(VMul(u.unit * u.unit, d), d[1] * d[1] + d[2] * d[2] + d[3] * d[3] + SepEps)

NoNeighbours ==
    [cohesion |-> VZero, alignment |-> VZero, separation |-> VZero,
     neighbourCount |-> 0, separationCount |-> 0]

\* 1) neighbour accumulation over the examined particles ns, in scan order
RECURSIVE Accumulate(_, _, _, _)
Accumulate(u, self, ns, acc) ==
    IF ns = <<>> THEN acc
    ELSE LET j == Head(ns)
             d == VSub(j.pos, self.pos)
             near == WithinRadius(d, u.neighborRadius)
             close == near /\ WithinRadius(d, u.separationRadius)
             acc1 == IF near
                     THEN [acc EXCEPT !.cohesion = FVAdd(@, j.pos),
                                      !.alignment = FVAdd(@, j.vel),
                                      !.neighbourCount = @ + 1]
                     ELSE acc
             acc2 == IF close
                     THEN [acc1 EXCEPT !.separation = FVSub(@, Repulsion(u, d)),
                                       !.separationCount = @ + 1]
                     ELSE acc1
         IN  Accumulate(u, self, Tail(ns), acc2)

\* 4) soft bounds: steering away from a face, proportional to the depth in the margin
FaceTerm(u, x) ==
    (IF x < u.worldMin + u.boundaryMargin
        THEN u.boundaryStrength * (u.worldMin + u.boundaryMargin - x) ELSE 0)
    - (IF x > u.worldMax - u.boundaryMargin
          THEN u.boundaryStrength * (x - (u.worldMax - u.boundaryMargin)) ELSE 0)
BoundaryTerm(u, pos) == <<FaceTerm(u, pos[1]), FaceTerm(u, pos[2]), FaceTerm(u, pos[3])>>

\* 2) and 3) steering vectors, weighted sum, center pull, boundary term
Acceleration(u, self, acc) ==
    LET n == acc.neighbourCount
        steerCoh == IF n > 0 THEN FVSub(FVDiv(acc.cohesion, n), self.pos) ELSE VZero
        steerAli == IF n > 0 THEN FVSub(FVDiv(acc.alignment, n), self.vel) ELSE VZero
        steerSep == IF acc.separationCount > 0
                    THEN FVDiv(acc.separation, acc.separationCount) ELSE VZero
        center == <<(u.worldMin + u.worldMax) \div 2, (u.worldMin + u.worldMax) \div 2,
                    (u.worldMin + u.worldMax) \div 2>>
        steer == VAdd(VAdd(VMul(u.weightSeparation, steerSep),
                           VMul(u.weightAlignment, steerAli)),
                      VMul(u.weightCohesion, steerCoh))
        pulled == VAdd(steer, VMul(u.centerAttraction, VSub(center, self.pos)))
    IN  IF u.wrapBounds THEN pulled ELSE VAdd(pulled, BoundaryTerm(u, self.pos))

\* (mutant: the limit applied to each component on its own)
ClampPerAxis(u, a) ==
    <<GlClamp(a[1], -u.maxAccel, u.maxAccel), GlClamp(a[2], -u.maxAccel, u.maxAccel),
      GlClamp(a[3], -u.maxAccel, u.maxAccel)>>

\* 5) if length (accel) > maxAccel: accel = normalize (accel) * maxAccel
ClampAccel(u, a) ==
    IF GlLength(a) > u.maxAccel THEN ScaleTo(a, u.maxAccel) ELSE a

FallbackDir == <<1, 0, 0>>

\* 6) speed clamp: the fallback direction for a speed that is almost zero, otherwise
\* normalize (vel) scaled by the clamped speed
ClampSpeed(u, v) ==
    LET speed == GlLength(v)
        target == GlClamp(speed, u.minSpeed, u.maxSpeed)
    IN  IF speed = 0 THEN VMul(target, FallbackDir) ELSE ScaleTo(v, target)

\* wrap bounds: pos += (worldMax - worldMin) below worldMin, -= above worldMax
WrapAxis(u, x) ==
    IF x < u.worldMin THEN x + (u.worldMax - u.worldMin)
    ELSE IF x > u.worldMax THEN x - (u.worldMax - u.worldMin)
    ELSE x

\* soft bounds: the position clamped into the box
ClampAxis(u, x) == GlClamp(x, u.worldMin, u.worldMax)

Bounded(u, p) ==
    IF u.wrapBounds THEN <<WrapAxis(u, p[1]), WrapAxis(u, p[2]), WrapAxis(u, p[3])>>
    ELSE <<ClampAxis(u, p[1]), ClampAxis(u, p[2]), ClampAxis(u, p[3])>>

\* boids_step.comp for one particle and the particles ns its scan examined, in scan
\* order.  The result keeps, besides the particle written, the acceleration used, the
\* velocity and the position after the Euler step.
StepParticle(u, self, ns) ==
    LET acc == Accumulate(u, self, ns, NoNeighbours)
        raw == Acceleration(u, self, acc)
        accel == ClampAccel(u, raw)
        vel1 == FVAdd(self.vel, VMulDt(u, accel))
        pos1 == FVAdd(self.pos, VMulDt(u, vel1))
    IN  [pos |-> Bounded(u, pos1), vel |-> ClampSpeed(u, vel1),
         rawAccel |-> raw, accel |-> accel, integratedVel |-> vel1, integratedPos |-> pos1,
         neighbourCount |-> acc.neighbourCount]


\* ------------------------------------------------------------- one integrate unit, applied

\* Grid steps to 1.0: a coarse grid, on which the largest admitted settings fit, and
\* the grid of the 32-bit floats between 8.0 and 16.0
CoarseUnit == 32
FineUnit == 1048576

\* Requested settings before the clamps of onParamsChanged
ForceSettings(w) ==
    {[weightSeparation |-> 1, weightAlignment |-> 1, weightCohesion |-> 1, maxAccel |-> 20,
      simSpeed |-> 10, centerAttraction |-> 0, boundaryMargin |-> Scale,
      boundaryStrength |-> 10, wrapBounds |-> w],
     [weightSeparation |-> 80, weightAlignment |-> 80, weightCohesion |-> 80,
      maxAccel |-> 20000, simSpeed |-> 30, centerAttraction |-> 2000,
      boundaryMargin |-> 1000 * Scale, boundaryStrength |-> 20000, wrapBounds |-> w],
     [weightSeparation |-> 0, weightAlignment |-> 3, weightCohesion |-> 2, maxAccel |-> 0,
      simSpeed |-> 0, centerAttraction |-> 1, boundaryMargin |-> 0,
      boundaryStrength |-> 0, wrapBounds |-> w]}
ForceInputs == ForceSettings(TRUE) \cup ForceSettings(FALSE)

SpeedInputs ==
    {[DefaultParams EXCEPT !.minSpeed = mm[1], !.maxSpeed = mm[2]] :
        mm \in {<<0, Scale \div 4>>, <<Scale, 4 * Scale>>, <<2000 * Scale, 0>>,
                <<Scale, 2000 * Scale>>}}

\* frame times in 1600ths of a second: none, 1/32 s, 1/20 s, 1/8 s
DtInputs == {0, 50, 80, 200}

\* Particles on the coarse grid: the centre, beside a face, a corner, outside the box
\* (as wrap mode can leave them)
CoarsePos ==
    {<<0, 0, 0>>, <<10 * CoarseUnit - 1, -10 * CoarseUnit, 0>>,
     <<10 * CoarseUnit, 10 * CoarseUnit, 10 * CoarseUnit>>,
     <<13 * CoarseUnit, 0, -12 * CoarseUnit>>}
CoarseVel ==
    {<<0, 0, 0>>, <<CoarseUnit, 0, 0>>, <<-600 * CoarseUnit, 800 * CoarseUnit, 0>>,
     <<7, -5, 3>>}

\* The particles a scan examined, by their offsets from the scanning particle
CoarseNeighbours ==
    {{},
     {[off |-> <<1, 0, 0>>, vel |-> <<0, CoarseUnit, 0>>]},
     {[off |-> <<1, 0, 0>>, vel |-> <<0, CoarseUnit, 0>>],
      [off |-> <<-20, 10, 0>>, vel |-> <<-600 * CoarseUnit, 800 * CoarseUnit, 0>>],
      [off |-> <<0, 0, 40>>, vel |-> <<3, 3, 3>>]}}

\* Orders in which a scan can meet the particles of a set: every order, because the
\* build units link themselves into a list in any order
ScanOrders(S) ==
    {f \in [1 .. Cardinality(S) -> S] : \A x \in S : \E k \in 1 .. Cardinality(S) : f[k] = x}

Placed(self, ns) == [k \in DOMAIN ns |-> [pos |-> VAdd(self.pos, ns[k].off), vel |-> ns[k].vel]]

\* One invocation of boids_step.comp with the uniforms of dispatchComputePasses, run
\* for every order of the examined particles
Applied(p, f, dt, unit, self, nbrs) ==
    LET stored == ClampParams(p)
        forces == ClampForces(f)
        u == StepUniforms(stored, forces, ClampDt(dt), unit)
    IN  [fn |-> "step", stored |-> stored, forces |-> forces, unit |-> unit, u |-> u,
         self |-> self, nbrs |-> nbrs,
         out |-> [o \in ScanOrders(nbrs) |-> StepParticle(u, self, Placed(self, o))]]

StepCoarse(p, f, dt, self, nbrs) ==
    /\ call = <<>>
    /\ call' = Applied(p, f, dt, CoarseUnit, self, nbrs)
    /\ UNCHANGED <<hostVars, gpuVars>>

\* On the fine grid: alignment only, weight 16, u_dt = 1/16, wrap mode; velocities
\* along x between 8.0 and 16.0
FineForces ==
    [weightSeparation |-> 0, weightAlignment |-> 16, weightCohesion |-> 0, maxAccel |-> 1000,
     simSpeed |-> 20, centerAttraction |-> 0, boundaryMargin |-> Scale,
     boundaryStrength |-> 0, wrapBounds |-> TRUE]
FineParams ==
    [DefaultParams EXCEPT !.separationRadius = 0, !.minSpeed = Scale, !.maxSpeed = 16 * Scale]
FineVel == {<<9 * FineUnit + k, 0, 0>> : k \in 0 .. 2}
FineOffsets == <<<<FineUnit \div 2, 0, 0>>, <<0, FineUnit \div 2, 0>>, <<0, 0, FineUnit \div 2>>>>

StepFine(v0, v) ==
    /\ call = <<>>
    /\ call' = Applied(FineParams, FineForces, 50, FineUnit, [pos |-> VZero, vel |-> v0],
                       {[off |-> FineOffsets[k], vel |-> v[k]] : k \in 1 .. 3})
    /\ UNCHANGED <<hostVars, gpuVars>>

StepNext ==
    \/ \E p \in SpeedInputs, f \in ForceInputs, dt \in DtInputs :
       \E pos \in CoarsePos, vel \in CoarseVel, nbrs \in CoarseNeighbours :
          StepCoarse(p, f, dt, [pos |-> pos, vel |-> vel], nbrs)
    \/ \E v0 \in FineVel, v \in [1 .. 3 -> FineVel] : StepFine(v0, v)

SpecStep == Init /\ [][StepNext]_vars

\* ------------------------------------------------------------- claims on SpecStep

IsStep == call # <<>> /\ call.fn = "step"

\* C14: for one input particle state, configuration and dt, the integrate unit writes
\* the same position and the same velocity whatever the order in which the build units
\* linked the particles it examines (at most 64 of them).
C14_ScanOrderDeterminism ==
    IsStep /\ Cardinality(call.nbrs) <= KMaxNeighbours =>
        \A o1, o2 \in DOMAIN call.out :
            /\ call.out[o1].pos = call.out[o2].pos
            /\ call.out[o1].vel = call.out[o2].vel

\* The box and the limits MainComponent holds, in the grid steps of the application
BoxMax == ToGrid(WorldMax, call.unit)
BoxMin == -ToGrid(WorldMax, call.unit)
HeldMinSpeed == ToGrid(call.stored.minSpeed, call.unit)
HeldMaxSpeed == ToGrid(call.stored.maxSpeed, call.unit)
HeldMaxAccel == call.forces.maxAccel * call.unit

\* What the grid's resolution allows a rescaled vector of length t to be off by
Slack(t) == t \div 512 + 3

\* C15: with wrapBounds off, whatever the weights, boundary settings, limits, speeds
\* and dt, every coordinate of the position the integrate unit writes lies between
\* worldMin and worldMax.
C15_SoftContainment ==
    IsStep /\ ~call.forces.wrapBounds =>
        \A o \in DOMAIN call.out : \A a \in 1 .. 3 :
            BoxMin <= call.out[o].pos[a] /\ call.out[o].pos[a] <= BoxMax

\* the Euler step left the box with the largest boundary strength in force
C15_Witness ==
    /\ IsStep /\ ~call.forces.wrapBounds
    /\ call.forces.boundaryStrength = 10000
    /\ \E o \in DOMAIN call.out : \E a \in 1 .. 3 : call.out[o].integratedPos[a] > BoxMax

\* C16: with wrapBounds on, a coordinate that the Euler step left delta above worldMax
\* is written as worldMin + delta, one left delta below worldMin as worldMax - delta,
\* and one inside the box as it is, each axis by itself.
C16_WrapBoundary ==
    IsStep /\ call.forces.wrapBounds =>
        \A o \in DOMAIN call.out : \A a \in 1 .. 3 :
            LET p == call.out[o].integratedPos[a]
                q == call.out[o].pos[a]
            IN  /\ p > BoxMax => q = BoxMin + (p - BoxMax)
                /\ p < BoxMin => q = BoxMax - (BoxMin - p)
                /\ BoxMin <= p /\ p <= BoxMax => q = p

\* one particle above the box on one axis, below on another, inside on the third
C16_Witness ==
    /\ IsStep /\ call.forces.wrapBounds
    /\ \E o \in DOMAIN call.out : \E a, b, c \in 1 .. 3 :
          /\ call.out[o].integratedPos[a] > BoxMax
          /\ call.out[o].integratedPos[b] < BoxMin
          /\ call.out[o].integratedPos[c] > BoxMin /\ call.out[o].integratedPos[c] < BoxMax

SpeedWithinLimits(v) ==
    /\ GlLength(v) >= HeldMinSpeed - Slack(HeldMinSpeed)
    /\ GlLength(v) <= HeldMaxSpeed + Slack(HeldMaxSpeed)

Direction(v) == <<Rescale(v, 1, 4096), Rescale(v, 2, 4096), Rescale(v, 3, 4096)>>

SameDirection(a, b) ==
    \A k \in 1 .. 3 :
        Abs(Direction(a)[k] - Direction(b)[k]) <= (8192 \div MaxAbs(b)) + 4

\* C18: the acceleration used in the velocity update, formed after the steering,
\* center-pull and boundary terms are added, has a magnitude of at most maxAccel, and
\* where it was cut down it points where the sum of those terms points.
C18_AccelClamp ==
    IsStep =>
        \A o \in DOMAIN call.out :
            /\ GlLength(call.out[o].accel) <= HeldMaxAccel + Slack(HeldMaxAccel)
            /\ call.out[o].accel # call.out[o].rawAccel /\ call.out[o].accel # VZero =>
                  SameDirection(call.out[o].rawAccel, call.out[o].accel)
            /\ call.out[o].accel = VZero =>
                  call.out[o].rawAccel = VZero \/ HeldMaxAccel = 0

\* an acceleration of all three kinds of term, not along an axis, cut down to maxAccel
C18_Witness ==
    /\ IsStep
    /\ call.forces.maxAccel = 20
    /\ Cardinality(call.nbrs) = 3
    /\ call.forces.centerAttraction > 0 \/ call.forces.boundaryStrength > 0
    /\ \E o \in DOMAIN call.out :
          /\ GlLength(call.out[o].rawAccel) > 4 * HeldMaxAccel
          /\ Cardinality({k \in 1 .. 3 : call.out[o].rawAccel[k] # 0}) >= 2
          /\ call.out[o].accel # call.out[o].rawAccel

\* ------------------------------------------------------------- the neighbour query, step by step
\* SpecQuery follows one integrate unit through the loops of its neighbour query
\* (docs/TECHNICAL.md lines 267-286): the 27 offsets, the walk of each cell's list and
\* the cap, on a grid of 4 x 4 x 4 cells holding more particles than the cap.

QueryParticles == 70

\* neighborRadius 5.0: cellSize 5.0, gridDims (4, 4, 4)
QueryRadius == 5 * Scale

\* The centre of the cell with the coordinates c
CellCentre(c) ==
    LET cs == GridFor(QueryRadius).cellSize
    IN  <<WorldMin + c[1] * cs + cs \div 2, WorldMin + c[2] * cs + cs \div 2,
          WorldMin + c[3] * cs + cs \div 2>>

\* Where the particles are: all in one inner cell; two adjacent cells of a corner
\* holding more than the cap together, the rest in the opposite corner; one or two
\* particles in every cell
QueryLayouts ==
    {[i \in 0 .. QueryParticles - 1 |-> <<1, 1, 1>>],
     [i \in 0 .. QueryParticles - 1 |->
         IF i < 40 THEN <<0, 0, 0>> ELSE IF i < 66 THEN <<1, 0, 0>> ELSE <<3, 3, 3>>],
     [i \in 0 .. QueryParticles - 1 |-> <<i % 4, (i \div 4) % 4, (i \div 16) % 4>>]}

\* The particles whose query is followed
QuerySelves == {0, 21, 45, QueryParticles - 1}

QueryInit ==
    \E lay \in QueryLayouts :
        /\ lifecycle = "running"
        /\ glpc = "fr_build"
        /\ params = ClampParams([DefaultParams EXCEPT !.neighborRadius = QueryRadius])
        /\ currentParticleCount = ClampCount(QueryParticles)
        /\ cellSize = GridFor(QueryRadius).cellSize
        /\ gridDims = GridFor(QueryRadius).gridDims
        /\ cellCount = GridFor(QueryRadius).cellCount
        /\ particlesSSBO = [i \in 0 .. 1 |-> i + 1]
        /\ cellHeadsSSBO = 3
        /\ nextIndexSSBO = 4
        /\ buffers = [n \in BufferNames |->
              IF n \in {1, 2} THEN [kind |-> "particles", size |-> QueryParticles,
                                    state |-> "stepped", vals |-> {}]
              ELSE IF n = 3 THEN [kind |-> "heads", size |-> GridFor(QueryRadius).cellCount,
                                  state |-> "cleared", vals |-> {}]
              ELSE IF n = 4 THEN [kind |-> "next", size |-> QueryParticles,
                                  state |-> "built", vals |-> {}]
              ELSE FreeBuffer]
        /\ binding = [b \in 0 .. 3 |-> b + 1]
        /\ buffersReady = TRUE
        /\ shadersLoaded = TRUE
        /\ computeAvailable = TRUE
        /\ shaders = LoadedShaders
        /\ files = InitFiles
        /\ msg = MsgInit
        /\ rebuildArg = QueryParticles
        /\ hist = [NoHist EXCEPT !.epoch = 1, !.builtRadius = QueryRadius,
                                 !.builtCount = QueryParticles]
        /\ heads = [c \in 0 .. GridFor(QueryRadius).cellCount - 1 |-> -1]
        /\ next = [i \in 0 .. QueryParticles - 1 |-> -1]
        /\ slots = [n \in {1, 2} |->
              [i \in 0 .. QueryParticles - 1 |-> [pos |-> CellCentre(lay[i]), tick |-> 1]]]
        /\ launched = {"clear", "build"}
        /\ clearDone = {}
        /\ stepDone = {}
        /\ buildSt = [i \in 0 .. QueryParticles - 1 |-> "pending"]
        /\ prevReg = [i \in 0 .. QueryParticles - 1 |-> -1]
        /\ seen = [i \in 0 .. QueryParticles - 1 |-> <<>>]
        /\ accepted = [i \in 0 .. QueryParticles - 1 |-> {}]
        /\ drawn = {}
        /\ tickNo = 1
        /\ call = <<>>

\* (dx, dy, dz) of the k-th of the 27 iterations, dx innermost
OffsetOf(k) == <<(k % 3) - 1, ((k \div 3) % 3) - 1, (k \div 9) - 1>>

\* the cell the k-th iteration of the query of a particle in cell own looks at
CellAt(own, k) ==
    <<own[1] + OffsetOf(k)[1], own[2] + OffsetOf(k)[2], own[3] + OffsetOf(k)[3]>>

\* skip out-of-bounds neighbour cells
InGrid(c) == \A k \in 1 .. 3 : c[k] >= 0 /\ c[k] < gridDims[k]

\* (mutant: a query without the cap)
CapNever(n) == FALSE

\* kMaxNeighbours: the query stops once n particles have been examined
CapReached(n) == n >= KMaxNeighbours

InQuery(pc) == call # <<>> /\ call.fn = "query" /\ call.pc = pc

QueryFrame ==
    /\ UNCHANGED hostVars
    /\ UNCHANGED <<heads, next, slots, launched, clearDone, buildSt, prevReg, stepDone,
                   accepted, drawn, tickNo>>

\* invocation i of the step pass starts its neighbour query
QueryBegin(i) ==
    /\ glpc = "fr_step"
    /\ call = <<>>
    /\ call' = [fn |-> "query", pc |-> "cell", self |-> i, own |-> CellCoords(PosOf(i)),
                k |-> 0, j |-> -1, count |-> 0, cells |-> <<>>]
    /\ seen' = [seen EXCEPT ![i] = <<>>]
    /\ QueryFrame

\* the loops over dz, dy, dx are over
QueryFinish ==
    /\ InQuery("cell")
    /\ call.k = 27
    /\ call' = [call EXCEPT !.pc = "done"]
    /\ UNCHANGED seen
    /\ QueryFrame

\* a neighbour cell outside the grid
QuerySkipCell ==
    /\ InQuery("cell")
    /\ call.k < 27
    /\ ~InGrid(CellAt(call.own, call.k))
    /\ call' = [call EXCEPT !.k = @ + 1]
    /\ UNCHANGED seen
    /\ QueryFrame

\* j = head[cell]
QueryEnterCell ==
    /\ InQuery("cell")
    /\ call.k < 27
    /\ InGrid(CellAt(call.own, call.k))
    /\ call' = [call EXCEPT !.pc = "list", !.j = heads[Flatten(CellAt(call.own, call.k))],
                            !.cells = Append(@, CellAt(call.own, call.k))]
    /\ UNCHANGED seen
    /\ QueryFrame

\* j = -1: the list of the cell is at its end
QueryEndOfList ==
    /\ InQuery("list")
    /\ call.j = -1
    /\ call' = [call EXCEPT !.pc = "cell", !.k = @ + 1]
    /\ UNCHANGED seen
    /\ QueryFrame

\* particle j is examined; j = next[j], or the query stops at the cap
QueryExamine ==
    /\ InQuery("list")
    /\ call.j # -1
    /\ seen' = [seen EXCEPT ![call.self] = Append(@, call.j)]
    /\ call' = [call EXCEPT !.count = @ + 1,
                            !.j = next[call.j],
                            !.pc = IF CapReached(call.count + 1) THEN "done" ELSE "list"]
    /\ QueryFrame

\* The build units take their turns one after the other, by index upwards or by
\* index downwards: two of the orders the dispatch allows
InTurn(i) ==
    /\ \A k \in Particles : buildSt[k] # "exchanged"
    /\ \/ /\ buildSt[currentParticleCount - 1] # "done"
          /\ \A k \in Particles : k < i => buildSt[k] = "done"
       \/ /\ buildSt[0] # "done"
          /\ \A k \in Particles : k > i => buildSt[k] = "done"

QueryBuildUnit(i) == InTurn(i) /\ BuildExchange(i)

QueryNext ==
    \/ \E i \in Particles : QueryBuildUnit(i)
    \/ \E i \in Particles : BuildLink(i)
    \/ BuildBarrier
    \/ \E i \in QuerySelves : QueryBegin(i)
    \/ QueryFinish
    \/ QuerySkipCell
    \/ QueryEnterCell
    \/ QueryEndOfList
    \/ QueryExamine

\* every unit of a dispatch runs to its end: the barrier after the pass waits for it
SpecQuery == QueryInit /\ [][QueryNext]_vars /\ WF_vars(QueryNext)

\* ------------------------------------------------------------- claims on SpecQuery

QueryDone == InQuery("done")

\* the cells entered so far, and the particles examined so far
QueryWithinBounds ==
    call # <<>> /\ call.fn = "query" =>
        /\ \A n \in 1 .. Len(call.cells) :
              /\ \A a \in 1 .. 3 :
                    /\ call.cells[n][a] - call.own[a] \in {-1, 0, 1}
                    /\ call.cells[n][a] \in 0 .. gridDims[a] - 1
              /\ \A m \in 1 .. Len(call.cells) : call.cells[n] = call.cells[m] => n = m
        /\ Len(call.cells) <= 27
        /\ call.count <= KMaxNeighbours
        /\ Len(seen[call.self]) = call.count
        /\ \A n \in 1 .. Len(seen[call.self]) :
              CellCoords(PosOf(seen[call.self][n])) \in {call.cells[m] : m \in 1 .. Len(call.cells)}
        /\ call.pc = "done" => seen[call.self] = Examined(call.self)

\* C19: the query of a particle enters only cells at offsets -1, 0, 1 per axis from
\* its own cell that lie inside the grid, each at most once, examines at most 64
\* particles over all of them, and comes to its end, also when the cells it visits
\* hold more than 64 particles.
C19_BoundedScan == []QueryWithinBounds /\ <>QueryDone

\* the query of a particle whose cell holds 70 particles has stopped at the cap
C19_Witness ==
    /\ QueryDone
    /\ call.count = KMaxNeighbours
    /\ call.k < 27
    /\ Cardinality(InNeighbourCells(call.self)) > KMaxNeighbours

\* ------------------------------------------------------------- the grid as documented

\* docs/TECHNICAL.md, Grid definition: cellSize = max (0.05, neighborRadius)
DocMinCellSize == 1000

RebuildHasGrid == glpc \in {"rb_gen", "rb_fill", "rb_ready"}

\* C23 (as claimed): in a rebuild, once the grid is computed, cellSize is
\* max (0.05, neighborRadius), gridDims is ceil ((worldMax - worldMin) / cellSize)
\* on every axis and cellCount is the product of the three dimensions.
C23_GridAsDocumented ==
    RebuildHasGrid =>
        /\ cellSize = Max(DocMinCellSize, params.neighborRadius)
        /\ \A k \in 1 .. 3 : gridDims[k] = CeilDiv(WorldMax - WorldMin, cellSize)
        /\ cellCount = gridDims[1] * gridDims[2] * gridDims[3]

\* ------------------------------------------------------------- allocation and dispatch

\* the number of entries of the store the handle h names
SizeOf(h) == buffers[h].size

\* C27: whenever a tick is being dispatched, CellHeads has cellCount entries and
\* cellCount is the product of the grid dimensions, NextIndex and both particle
\* buffers have currentParticleCount entries, and once both passes are dispatched
\* the build pass and the step pass were given the same particle count, grid
\* dimensions and cell size, those of the members.
C27_AllocationMatchesDispatch ==
    /\ glpc \in TickPcs \cup {"fr_swap"} =>
          /\ cellCount = gridDims[1] * gridDims[2] * gridDims[3]
          /\ buffers[cellHeadsSSBO].kind = "heads" /\ SizeOf(cellHeadsSSBO) = cellCount
          /\ buffers[nextIndexSSBO].kind = "next"
          /\ SizeOf(nextIndexSSBO) = currentParticleCount
          /\ \A i \in 0 .. 1 :
                /\ buffers[particlesSSBO[i]].kind = "particles"
                /\ SizeOf(particlesSSBO[i]) = currentParticleCount
    /\ glpc \in {"fr_step", "fr_swap"} => hist.buildArgs = BuildArgs
    /\ glpc = "fr_swap" =>
          /\ hist.stepArgs = hist.buildArgs
          /\ hist.stepArgs.particleCount = currentParticleCount
          /\ hist.stepArgs.gridDims = gridDims
          /\ hist.stepArgs.cellSize = cellSize

\* a tick on buffers reallocated for a count asked for above the limit and for a
\* radius other than the first one, after an earlier tick on the first buffers
C27_Witness ==
    /\ glpc = "fr_swap"
    /\ hist.asked /\ hist.requested > MaxParticles
    /\ currentParticleCount = MaxParticles
    /\ cellSize # GridFor(DefaultNeighborRadius).cellSize
    /\ hist.stepArgs.particleCount = MaxParticles
    /\ hist.epoch = 0

\* ------------------------------------------------------------- stored parameters

\* colorMode = juce::jlimit (0, 3, p.colorMode) (lines 177, 238)
ClampColorMode(m) == jlimit(0, 3, m)

ColorModeInputs == {-1, 0, 2, 3, 7}

\* u_dt for the frame time raw and the requested forces f, in 1600ths of a second
DtHanded(raw, f) ==
    StepUniforms(ClampParams(DefaultParams), ClampForces(f), ClampDt(raw), CoarseUnit).dt

StartsAdmissible ==
    /\ \A a \in 1 .. 3 : BoxMin <= call.self.pos[a] /\ call.self.pos[a] <= BoxMax
    /\ GlLength(call.self.vel) <= HeldMaxSpeed
    /\ call.stored.maxSpeed <= SpeedHi

GridCoords == {c \in (0 .. gridDims[1] - 1) \X (0 .. gridDims[2] - 1) \X (0 .. gridDims[3] - 1) : TRUE}

\* The positions held by the particle buffer bound as the input of a pass
InputPositions == {slots[binding[0]][i].pos : i \in Particles}

OutsideBox(q) == \E a \in 1 .. 3 : q[a] < WorldMin \/ q[a] > WorldMax

\* C24: while the build or the step pass runs, every particle of its input, inside
\* the box or not, has clamped cell coordinates within [0, dims - 1] on every axis and
\* a flattened index within [0, cellCount), which is an element of CellHeads; so are
\* the neighbour cells the step pass reads; and distinct cell coordinate triples of
\* the grid flatten to distinct indices.
C24_CellIndexInRange ==
    /\ launched \cap {"build", "step"} # {} =>
          \A q \in InputPositions :
              /\ InGrid(CellCoords(q))
              /\ CellIndex(q) \in Cells
              /\ CellIndex(q) \in DOMAIN heads
              /\ "step" \in launched => NeighbourCells(CellCoords(q)) \subseteq DOMAIN heads
    /\ \A c, d \in GridCoords : Flatten(c) = Flatten(d) => c = d
    /\ {Flatten(c) : c \in GridCoords} = Cells

\* a build pass of a grid of several cells has filed a particle that lies outside the
\* box, and the step pass that reads the lists is running
C24_Witness ==
    /\ "step" \in launched
    /\ cellCount > 1
    /\ \E i \in Particles :
          /\ OutsideBox(slots[binding[0]][i].pos)
          /\ buildSt[i] = "done"
          /\ stepDone # {}

\* ------------------------------------------------------------- the message thread

MaxChanges == 2
MaxFileTime == 2

\* What the GL thread owns
glVars ==
    <<lifecycle, glpc, params, currentParticleCount, cellSize, gridDims, cellCount,
      particlesSSBO, cellHeadsSSBO, nextIndexSSBO, buffers, binding, buffersReady,
      shadersLoaded, computeAvailable, rebuildArg, hist, shaders>>

RebuildSteps == {"rb_delete", "rb_grid", "rb_gen", "rb_fill", "rb_ready"}
FrameSteps == {"fr_clear", "fr_build", "fr_step", "fr_swap", "fr_draw", "fr_end"}

\* openGLContext.executeOnGLThread (job, true) called on the message thread: the
\* caller waits until the GL thread has run the job; a context that is not running
\* runs no job.
ExecuteOnGLThread(m, job) ==
    IF lifecycle = "running" THEN [m EXCEPT !.pc = "wait", !.job = job] ELSE m

\* Values the panel's controls are moved to
ControlInputs ==
    {InitControls, [InitControls EXCEPT !.particleCount = 3],
     [InitControls EXCEPT !.neighborRadius = DefaultNeighborRadius + 3]}

\* (mutant: a control changes without the pending flag being set)
ControlChangedUnflagged(v) ==
    /\ msg.pc = "free"
    /\ msg.version < MaxChanges
    /\ v # msg.controls
    /\ msg' = [msg EXCEPT !.controls = v, !.version = @ + 1]
    /\ UNCHANGED <<glVars, files, gpuVars, call>>

\* A slider, a combo box or the wrap toggle takes the value the user gives it and
\* calls sliderValueChanged, onChange or buttonClicked (lines 1177-1199, 1044, 1053)
ControlChanged(v) ==
    /\ msg.pc = "free"
    /\ msg.version < MaxChanges
    /\ v # msg.controls
    /\ msg' = [msg EXCEPT !.controls = v, !.version = @ + 1, !.pendingAnyChange = TRUE]
    /\ UNCHANGED <<glVars, files, gpuVars, call>>

\* BoidsControlPanel::timerCallback (lines 1208-1245); onParamsChanged is the lambda
\* of lines 213-249, which hands its job to the GL thread
PanelTimer ==
    /\ msg.pc = "free"
    /\ IF ~msg.pendingAnyChange THEN UNCHANGED msg
       ELSE IF ~msg.onParamsChanged THEN msg' = [msg EXCEPT !.pendingAnyChange = FALSE]
       ELSE msg' = ExecuteOnGLThread([msg EXCEPT !.pendingAnyChange = FALSE,
                                                 !.emitted = msg.version],
                                     <<"params", msg.controls>>)
    /\ UNCHANGED <<glVars, files, gpuVars, call>>

\* const bool changed = (clearMod > lastClearMod) || ... (lines 470-475)
Changed(fs, last) == \E f \in ShaderFiles : fs[f].mtime > last[f]

\* MainComponent::timerCallback (lines 455-486)
WatchTimer ==
    /\ msg.pc = "free"
    /\ IF \E f \in ShaderFiles : ~files[f].exists THEN UNCHANGED msg
       ELSE IF ~Changed(files, shaders.lastMod) THEN UNCHANGED msg
       ELSE msg' = ExecuteOnGLThread(msg, <<"reload">>)
    /\ UNCHANGED <<glVars, files, gpuVars, call>>

\* The GL thread takes the job the message thread waits for
RunReload(failing) ==
    /\ msg.pc = "wait"
    /\ msg.job = <<"reload">>
    /\ ReloadShaders(failing)
    /\ msg' = [msg EXCEPT !.pc = "running"]

RunParams ==
    /\ msg.pc = "wait"
    /\ Len(msg.job) = 2
    /\ OnParamsChanged(msg.job[2])
    /\ msg' = [msg EXCEPT !.pc = "running"]

\* The job returns (for a parameter update after its rebuild) and the caller goes on
JobReturns ==
    /\ msg.pc = "running"
    /\ glpc \notin RebuildSteps
    /\ msg' = [msg EXCEPT !.pc = "free", !.job = <<>>]
    /\ UNCHANGED <<glVars, files, gpuVars, call>>

\* The context is detached by the message thread, which then is not waiting
UiShutdown == msg.pc = "free" /\ Shutdown

\* The shader files an editor saves, and the one that is removed and put back
EditedFiles == {"boids_step.comp"}
RemovedFiles == {"particles.frag"}

TouchFile(f) ==
    /\ files[f].exists
    /\ files[f].mtime < MaxFileTime
    /\ files' = [files EXCEPT ![f].mtime = @ + 1]
    /\ UNCHANGED <<glVars, msg, gpuVars, call>>

RemoveFile(f) ==
    /\ files[f].exists
    /\ files' = [files EXCEPT ![f].exists = FALSE]
    /\ UNCHANGED <<glVars, msg, gpuVars, call>>

RestoreFile(f) ==
    /\ ~files[f].exists
    /\ files' = [files EXCEPT ![f].exists = TRUE]
    /\ UNCHANGED <<glVars, msg, gpuVars, call>>

\* The steps of a rebuild and of a frame
RebuildNext == RbDelete \/ RbGrid \/ RbGen \/ RbFill \/ RbReady

FrameNext == Render \/ FrClear \/ FrBuild \/ FrStep \/ FrSwap \/ FrDraw \/ FrEnd

\* The file watcher, the shader files and the GL thread, from the constructed
\* component; the panel rests
ReloadNext ==
    \/ \E capable \in BOOLEAN, failing \in 0 .. 4 : Initialise(capable, failing)
    \/ \E failing \in 0 .. 4 : RunReload(failing)
    \/ JobReturns
    \/ RebuildNext
    \/ FrameNext
    \/ UiShutdown
    \/ WatchTimer
    \/ \E f \in EditedFiles : TouchFile(f)
    \/ \E f \in RemovedFiles : RemoveFile(f)
    \/ \E f \in RemovedFiles : RestoreFile(f)

SpecReload == Init /\ [][ReloadNext]_vars

\* Both timers, the panel and the GL thread, from the constructed component, with a
\* context that has compute and files that stay in place
UiNext ==
    \/ \E failing \in HostFailures : Initialise(TRUE, failing)
    \/ \E failing \in HostFailures : RunReload(failing)
    \/ RunParams
    \/ JobReturns
    \/ RebuildNext
    \/ FrameNext
    \/ \E v \in ControlInputs : ControlChanged(v)
    \/ PanelTimer
    \/ WatchTimer
    \/ \E f \in EditedFiles : TouchFile(f)

SpecUi == Init /\ [][UiNext]_vars

\* The GL thread empties its job queue before it begins a frame
RenderAfterJobs == msg.pc # "wait" /\ Render

\* What the GL thread goes on with once begun, and the job it finds queued
GLProgress ==
    \/ RunParams
    \/ RebuildNext
    \/ RenderAfterJobs \/ FrClear \/ FrBuild \/ FrStep \/ FrSwap \/ FrDraw \/ FrEnd

\* The panel, its debounce timer and the GL thread, from the constructed component
PanelNext ==
    \/ \E failing \in HostFailures : Initialise(TRUE, failing)
    \/ \E v \in ControlInputs : ControlChanged(v)
    \/ PanelTimer
    \/ JobReturns
    \/ GLProgress

\* The debounce timer keeps firing on the message thread; the GL thread keeps going
\* and a finished job returns to its caller.
SpecPanel ==
    Init /\ [][PanelNext]_vars
         /\ WF_vars(PanelTimer) /\ WF_vars(JobReturns) /\ WF_vars(GLProgress)


\* ------------------------------------------------------------- shader reload

AllInstalled == \A k \in ProgramIds : shaders.programs[k] # NoProgram
NoneInstalled == \A k \in ProgramIds : shaders.programs[k] = NoProgram
ErrorNamesFile == \E k \in ProgramIds : shaders.lastShaderError = ErrorHead(k)

AllOrNothing ==
    \/ shadersLoaded /\ AllInstalled /\ shaders.lastShaderError = ""
    \/ ~shadersLoaded /\ NoneInstalled /\ (computeAvailable => ErrorNamesFile)

\* A step in which reloadAllShadersOnGLThread runs: within initialise, or as the job
\* of the file watcher
ReloadStep ==
    \/ lifecycle # "running" /\ lifecycle' = "running"
    \/ msg.pc = "wait" /\ msg.job = <<"reload">> /\ msg'.pc = "running"

\* C25: after every reloadAllShadersOnGLThread either the four programs are installed,
\* shadersLoaded is true and the error is empty, or no program is installed,
\* shadersLoaded is false and, with compute available, the error names the failing
\* file; no step of a tick or draw is taken while shadersLoaded is false; a reload
\* leaves the particle and grid buffers as they are.
C25_ReloadAllOrNothing ==
    /\ [](lifecycle = "running" => AllOrNothing)
    /\ [](glpc \in FrameSteps => shadersLoaded)
    /\ [][ReloadStep => UNCHANGED <<buffers, particlesSSBO, cellHeadsSSBO, nextIndexSSBO,
                                    buffersReady, binding>>]_vars

\* a hot reload has failed on an edited step shader after an earlier success, with the
\* buffers of the running simulation in place
C25_Witness ==
    /\ lifecycle = "running"
    /\ computeAvailable
    /\ ~shadersLoaded
    /\ buffersReady
    /\ shaders.lastShaderError = ErrorHead(3)
    /\ shaders.lastMod["boids_step.comp"] = 1
    /\ files["boids_step.comp"].mtime = 2

\* ------------------------------------------------------------- hot reload

CurrentTimes == [f \in ShaderFiles |-> files[f].mtime]

\* C26 (as claimed): a file-watch tick that finds all five files and one of them newer
\* than its stored time hands the reload to the GL thread, and the reload leaves the
\* stored times at the files' times; a tick that finds a file missing or none newer
\* asks for nothing, and the installed programs change only in a reload, initialise
\* or shutdown.
C26_HotReload ==
    [][/\ (WatchTimer /\ (\A f \in ShaderFiles : files[f].exists)
              /\ Changed(files, shaders.lastMod) /\ lifecycle = "running"
            => msg'.pc = "wait" /\ msg'.job = <<"reload">>)
       /\ (msg.pc = "free" /\ msg'.pc = "wait"
            => (\A f \in ShaderFiles : files[f].exists) /\ Changed(files, shaders.lastMod))
       /\ (msg.pc = "wait" /\ msg'.pc = "running" => shaders'.lastMod = CurrentTimes)
       /\ (shaders'.programs # shaders.programs
            => (msg.pc = "wait" /\ msg'.pc = "running") \/ lifecycle' # lifecycle)]_vars

\* C26 without the update of the stored times
C26_Rest ==
    [][/\ (WatchTimer /\ (\A f \in ShaderFiles : files[f].exists)
              /\ Changed(files, shaders.lastMod) /\ lifecycle = "running"
            => msg'.pc = "wait" /\ msg'.job = <<"reload">>)
       /\ (msg.pc = "free" /\ msg'.pc = "wait"
            => (\A f \in ShaderFiles : files[f].exists) /\ Changed(files, shaders.lastMod))
       /\ (msg.pc = "wait" /\ msg'.pc = "running" /\ shadersLoaded'
            => shaders'.lastMod = CurrentTimes)
       /\ (shaders'.programs # shaders.programs
            => (msg.pc = "wait" /\ msg'.pc = "running") \/ lifecycle' # lifecycle)]_vars


\* ------------------------------------------------------------- jobs and frames

\* What a tick and its draw are handed: the stored parameters, the particle count and
\* the grid, the buffers and their sizes, the programs
FrameInputs ==
    <<params, currentParticleCount, cellSize, gridDims, cellCount,
      {particlesSSBO[0], particlesSSBO[1]}, cellHeadsSSBO, nextIndexSSBO,
      [n \in BufferNames |-> <<buffers[n].kind, buffers[n].size>>], buffersReady,
      shadersLoaded, computeAvailable, shaders.programs>>

\* C22: a job the message thread hands over (parameter update with its rebuild,
\* shader reload) starts only between two frames, and from the clear phase of a tick
\* to the end of the frame's draw the parameters, the buffers and the programs the
\* frame works with do not change.
C22_JobsBetweenFrames ==
    [][/\ (msg.pc = "wait" /\ msg'.pc = "running" => glpc = "idle")
       /\ (glpc \in FrameSteps => FrameInputs' = FrameInputs)
       /\ (glpc \in FrameSteps => glpc' \in FrameSteps \cup {"idle"})]_vars

\* a parameter update that needs a rebuild waits while the GL thread is in the step
\* pass of a tick
C22_Witness ==
    /\ glpc = "fr_step"
    /\ msg.pc = "wait"
    /\ Len(msg.job) = 2
    /\ NeedsRebuild(msg.job[2], params, currentParticleCount)

\* ------------------------------------------------------------- debounce

\* C29: a change of a control sets the pending flag; a Params snapshot is emitted only
\* by a timer tick that finds a change pending, one per tick, taken from the controls
\* as they then are; and every change is followed by a snapshot at least as recent.
C29_DebounceNoLostUpdate ==
    /\ [][/\ (msg'.version # msg.version => msg'.pendingAnyChange)
          /\ (msg'.emitted # msg.emitted =>
                /\ msg.pendingAnyChange /\ ~msg'.pendingAnyChange
                /\ msg'.emitted = msg.version
                /\ lifecycle = "running" => msg'.job = <<"params", msg.controls>>)
          /\ (~msg.pendingAnyChange => msg'.emitted = msg.emitted)]_vars
    /\ \A v \in 1 .. MaxChanges :
          (msg.version >= v /\ msg.onParamsChanged) ~> (msg.emitted >= v)

\* two changes were made, the second after the snapshot of the first, and the
\* snapshot of the second has been applied by the GL thread
C29_Witness ==
    /\ msg.version = 2
    /\ msg.emitted = 2
    /\ msg.pc = "free"
    /\ msg.controls # InitControls
    /\ params.neighborRadius = msg.controls.neighborRadius
    /\ currentParticleCount = msg.controls.particleCount
    /\ buffersReady


\* ------------------------------------------------------------- derived colour

\* Colour settings in thousandths (colorMode as it is); the stored values after the
\* clamps of the constructor and of the onParamsChanged lambda (lines 178-183, 238-243)
ClampColors(c) ==
    [colorMode    |-> ClampColorMode(c.colorMode),
     hueOffset    |-> jlimit(0, 1000, c.hueOffset),
     hueRange     |-> jlimit(0, 1000, c.hueRange),
     saturation   |-> jlimit(0, 1000, c.saturation),
     value        |-> jlimit(0, 1000, c.value),
     densityCurve |-> jlimit(100, 8000, c.densityCurve)]

\* dispatchComputePasses, lines 803-809: u_colorMode .. u_densityCurve are set from the
\* members of their names
ColorUniforms(c) == ClampColors(c)

\* t = clamp ((|vel| - minSpeed) / (maxSpeed - minSpeed), 0..1), in thousandths
SpeedT(u, vel) ==
    GlClamp(((GlLength(vel) - u.minSpeed) * 1000) \div Max(1, u.maxSpeed - u.minSpeed),
            0, 1000)

\* fract (0.5 + atan (heading.z, heading.x) / (2 pi)), to an eighth of a turn
HeadingT(vel) ==
    LET x == vel[1]
        z == vel[3]
        eighth == IF z >= 0
                  THEN (IF x > 0 THEN (IF z < x THEN 0 ELSE 1)
                        ELSE (IF z > -x THEN 2 ELSE 3))
                  ELSE (IF x < 0 THEN (IF -z < -x THEN -4 ELSE -3)
                        ELSE (IF -z > x THEN -2 ELSE -1))
    IN  (500 + eighth * 125) % 1000

RECURSIVE PowMilli(_, _)
PowMilli(d, n) == IF n = 0 THEN 1000 ELSE (d * PowMilli(d, n - 1)) \div 1000

\* colorT of the four modes; pow (d, densityCurve) with the exponent's whole part
ColorT(cu, u, vel, count) ==
    IF cu.colorMode = 0 THEN 0
    ELSE IF cu.colorMode = 1 THEN HeadingT(vel)
    ELSE IF cu.colorMode = 2 THEN SpeedT(u, vel)
    ELSE PowMilli(GlClamp((count * 1000) \div KMaxNeighbours, 0, 1000),
                  cu.densityCurve \div 1000)

\* One channel of hsv2rgb (vec3 (h, s, v)): v * mix (1, clamp (abs (fract (h + k) * 6
\* - 3) - 1, 0, 1), s), k = 1, 2/3, 1/3 for red, green, blue
HsvChannel(h, sat, v, k) ==
    LET c == GlClamp(Abs(((h + k) % 1000) * 6 - 3000) - 1000, 0, 1000)
    IN  (v * (1000 - sat + (sat * c) \div 1000)) \div 1000

\* Particle.color: rgb = hsv2rgb (fract (hueOffset + hueRange * colorT), saturation,
\* value), alpha = 0.35 + 0.65 * t
DerivedColor(cu, u, vel, count) ==
    LET hue == (cu.hueOffset + (cu.hueRange * ColorT(cu, u, vel, count)) \div 1000) % 1000
    IN  <<HsvChannel(hue, cu.saturation, cu.value, 0),
          HsvChannel(hue, cu.saturation, cu.value, 667),
          HsvChannel(hue, cu.saturation, cu.value, 333),
          350 + (650 * SpeedT(u, vel)) \div 1000>>

Physical(q) == [pos |-> q.pos, vel |-> q.vel]

\* (mutant: a particle whose stored colour is opaque enough keeps its old velocity)
StepColouredFeedback(u, cu, self, ns) ==
    CHOOSE q \in {[pos |-> moved.pos,
                   vel |-> IF self.color[4] > 500 THEN self.vel ELSE moved.vel,
                   color |-> DerivedColor(cu, u, moved.vel, moved.neighbourCount)] :
                  moved \in {StepParticle(u, Physical(self),
                                          [k \in DOMAIN ns |-> Physical(ns[k])])}} : TRUE

\* boids_step.comp for one particle with its colour: the particle written is the
\* integrated one with the colour derived from its new velocity and neighbour count
StepColoured(u, cu, self, ns) ==
    CHOOSE q \in {[pos |-> moved.pos, vel |-> moved.vel,
                   color |-> DerivedColor(cu, u, moved.vel, moved.neighbourCount)] :
                  moved \in {StepParticle(u, Physical(self),
                                          [k \in DOMAIN ns |-> Physical(ns[k])])}} : TRUE

\* BoidsControlPanel::Params, the colour members with their default initialisers
DefaultColors ==
    [colorMode |-> 1, hueOffset |-> 0, hueRange |-> 700, saturation |-> 400,
     value |-> 1000, densityCurve |-> 1000]

\* Requested colour settings, one for each mode, with values below and above the limits
ColorInputs ==
    {DefaultColors,
     [colorMode |-> 0, hueOffset |-> 580, hueRange |-> 250, saturation |-> 850,
      value |-> 1000, densityCurve |-> 1000],
     [colorMode |-> 2, hueOffset |-> 900, hueRange |-> 2000, saturation |-> -5,
      value |-> 700, densityCurve |-> 0],
     [colorMode |-> 7, hueOffset |-> 100, hueRange |-> 800, saturation |-> 300,
      value |-> 1200, densityCurve |-> 2000]}

\* p.color of a generated particle (lines 688-693) heading along x at minSpeed:
\* 0.2 + 0.8 * |heading| per channel, alpha 0.35 + 0.65 * t
GeneratedColor == <<1000, 200, 200, 350>>

\* Colours found stored in the input buffer: as generated, as a tick left them
StoredColors == {GeneratedColor, <<700, 700, 420, 1000>>}

Tinted(q, col) == [pos |-> q.pos, vel |-> q.vel, color |-> col]

\* One tick's integrate unit for a particle and the particles its scan examined, with
\* colour settings c and the colour col stored on every particle, for every scan order
ColouredRun(u, c, col, self, nbrs) ==
    [cu |-> ColorUniforms(c), stored |-> col,
     out |-> [o \in ScanOrders(nbrs) |->
                StepColoured(u, ColorUniforms(c), Tinted(self, col),
                             [k \in DOMAIN o |-> Tinted(Placed(self, o)[k], col)])]]

\* Two runs of the same tick that differ in the colour settings and the stored colours
StepTwoColourings(p, f, dt, self, nbrs, c1, c2, col1, col2) ==
    /\ call = <<>>
    /\ LET u == StepUniforms(ClampParams(p), ClampForces(f), ClampDt(dt), CoarseUnit)
       IN  call' = [fn |-> "colour", u |-> u, self |-> self, nbrs |-> nbrs,
                    one |-> ColouredRun(u, c1, col1, self, nbrs),
                    two |-> ColouredRun(u, c2, col2, self, nbrs)]
    /\ UNCHANGED <<hostVars, gpuVars>>

\* The second run is the one with the settings and the stored colour listed first
ColourNext ==
    \E p \in SpeedInputs, f \in ForceSettings(TRUE), dt \in {50},
       pos \in CoarsePos, vel \in CoarseVel, nbrs \in CoarseNeighbours,
       c \in ColorInputs, col \in StoredColors :
        StepTwoColourings(p, f, dt, [pos |-> pos, vel |-> vel], nbrs, c, DefaultColors,
                          col, GeneratedColor)

SpecColour == Init /\ [][ColourNext]_vars

IsColour == call # <<>> /\ call.fn = "colour"

=============================================================================
